---- MODULE Spec2Model ----
(***************************************************************************)
(* A model of responses2chat: the stream translator                        *)
(* (converter.HandleStreamingResponse), the non-streaming response         *)
(* translator (converter.ConvertResponse), the web_search orchestrator     *)
(* (WebSearchHandler.HandleWithWebSearch) and the session-RPC search       *)
(* client (search.MCPProvider).                                            *)
(*                                                                         *)
(* A Go string is a sequence of one-character strings, "" is <<>> and      *)
(* s + t is s \o t.  A tool-call id is a sequence of character codes, so   *)
(* that hashToolCallID is computed as the code computes it.                *)
(***************************************************************************)
EXTENDS Integers, Sequences, FiniteSets, TLC

VARIABLES
    \* ---- HandleStreamingResponse (one stream) ----
    sPc,               \* "start" | "reading" | "returned"
    sInput,            \* the lines scanner.Scan() has delivered so far
    outputText,        \* var outputText string
    currentToolID,     \* var currentToolID int
    toolCalls,         \* map[int]*models.OutputItem
    messageItemAdded,  \* var messageItemAdded bool
    events,            \* what writer.WriteEvent has written, in order
    sReadErr,          \* scanner.Err() != nil when the loop ended
    sResult,           \* the returned *StreamResult
    \* ---- HandleWithWebSearch (one turn) ----
    oPc,               \* "loop" | "final" | "returned"
    oIter,             \* the loop variable i
    oChatReq,          \* the caller's chatReq
    messages,          \* the running message list
    webSearchCalls,    \* []WebSearchCall
    upstream,          \* every request sent upstream, with the answer it got
    searches,          \* every searchManager.Search call made, in order
    oResp,             \* the returned *ChatCompletionResponse (NoResp: nil)
    oErr,              \* the returned error is non-nil
    \* ---- MCPProvider (one client, concurrent Search calls) ----
    pc,                \* each caller's position in Search
    sessionID,         \* p.sessionID (0: the empty string)
    sessionMutex,      \* p.sessionMutex: 0 when free, else the holder
    attempt,           \* Search's loop variable, per caller
    attach,            \* the mcp-session-id header each caller's request carries
    tokens,            \* the session tokens the server has issued so far
    \* the record of one of the Search calls, the observed caller's:
    calls,             \* the answers to its tools/call requests, in order
    inits,             \* the initialize requests it has sent
    lastShake,         \* the answer to the latest initialize request of Observed
    fresh,             \* an initialize was answered since its last clearSession
    outcome,           \* what its Search returned ("none": not yet)
    \* ---- one turn's outbound calls and the caller's context ----
    tPc,               \* "new" | "loop" | "search" | "returned"
    tIter,             \* HandleWithWebSearch's loop variable i
    tTodo,             \* web_search calls of this round not yet executed
    tCtxDone,          \* the inbound caller's context is cancelled
    tInflight,         \* the outbound HTTP request in flight (NoCall: none)
    tSession,          \* the MCP provider holds a session id
    tProvider,         \* the registry's provider: "mcp" | "firecrawl" | "none"
                       \* ("unset" before the registry is built)
    tErr,              \* HandleWithWebSearch returned an error
    \* ---- ConvertRequest (one request, converted repeatedly) ----
    cPc,               \* "new" | "ready"
    cReq,              \* the *models.ResponsesRequest
    cHistory,          \* the caller's history slice
    cDev,              \* supportsDeveloperRole
    cOut               \* the *ChatCompletionRequest of each call, in order

VARIABLES
    \* ---- ConvertResponse (one Back response, converted once) ----
    rPc,               \* "new" | "ready" | "done"
    rResp,             \* the *models.ChatCompletionResponse
    rOut               \* the *models.ResponsesResponse

VARIABLES
    \* ---- search.Manager (built from one configuration, searched once) ----
    mPc,               \* "new" | "ready" | "done"
    mMgr,              \* the *Manager: enabled, defaultProvider, providers
    mInvoked,          \* the providers whose Search was called, in order
    mResult            \* what Manager.Search returned

VARIABLES
    \* ---- MCPProvider.parseResults (one content text, parsed once) ----
    jPc,               \* "new" | "ready" | "done"
    jText,             \* the text of the first content item
    jOut               \* what parseResults returned

VARIABLES
    \* ---- simulateStreaming (one finished turn, replayed as a stream) ----
    zPc,               \* "new" | "ready" | "done"
    zFlusher,          \* the ResponseWriter is an http.Flusher
    zResp,             \* the final *models.ChatCompletionResponse
    zCalls,            \* webSearchCalls: the recorded searches, in order
    zEvents            \* the SSE events written, in order

VARIABLES
    \* ---- the conversation store and the handler's multi-turn history ----
    bucket,            \* the "conversations" bucket: response id -> stored bytes
    kvOps,             \* the Store and Delete calls made so far, in order
    kvGot,             \* what the last Get returned, and after how many calls
    hPc,               \* "idle" | "upstream": handleResponses' position
    hReq,              \* the turn in progress: its history and its Back request
    hTurns             \* the turns that got a response id, in order

streamVars == <<sPc, sInput, outputText, currentToolID, toolCalls,
                messageItemAdded, events, sReadErr, sResult>>
orchVars   == <<oPc, oIter, oChatReq, messages, webSearchCalls, upstream, searches,
                oResp, oErr>>
mcpVars    == <<pc, sessionID, sessionMutex, attempt, attach, tokens, calls,
                inits, lastShake, fresh,
                outcome>>
turnVars   == <<tPc, tIter, tTodo, tCtxDone, tInflight, tSession, tProvider, tErr>>
convVars   == <<cPc, cReq, cHistory, cDev, cOut>>
respVars   == <<rPc, rResp, rOut>>
mgrVars    == <<mPc, mMgr, mInvoked, mResult>>
parseVars  == <<jPc, jText, jOut>>
simVars    == <<zPc, zFlusher, zResp, zCalls, zEvents>>
histVars   == <<bucket, kvOps, kvGot, hPc, hReq, hTurns>>
vars       == <<streamVars, orchVars, mcpVars, turnVars, convVars,
               respVars, mgrVars, parseVars, simVars, histVars>>

(***************************************************************************)
(* Bounds of the model.                                                    *)
(***************************************************************************)
MaxLines == 4      \* lines one upstream stream delivers before it ends
MaxItems == 2      \* input items of one Front request
MaxConvCalls == 2  \* times ConvertRequest is invoked on one request
NumCallers == 2    \* concurrent Search calls on one MCPProvider
MaxProviders == 3  \* provider entries of one web search configuration
MaxResults == 2    \* entries of one search result array
MaxOutcomes == 2   \* searches recorded in one turn that is replayed as a stream
MaxUsage == 2      \* the largest token count a Back response reports
MaxOps == 3        \* Store and Delete calls made on one conversation store
MaxTurns == 2      \* turns of one handler that get a response id

(***************************************************************************)
(* Helpers.                                                                *)
(***************************************************************************)
Range(s) == {s[i] : i \in DOMAIN s}

\* Every order in which Go may iterate a map with key set S.
Orders(S) ==
    {o \in [1..Cardinality(S) -> S] : \A i, j \in 1..Cardinality(S) : o[i] = o[j] => i = j}

RECURSIVE Concat(_)
Concat(ss) == IF ss = <<>> THEN <<>> ELSE Head(ss) \o Concat(Tail(ss))

(***************************************************************************)
(* Data of the stream translator.                                          *)
(***************************************************************************)
\* models.OutputItem.  id: the n of "fc-<responseID>-<n>", MsgID for
\* "msg-<responseID>".  text: the text of its single output_text part.
MsgID == 0 - 1
FcID  == 0 - 2     \* "fc-<requestID>", the id ConvertResponse gives every call

NoItem ==
    [type |-> "none", id |-> MsgID, role |-> "", call_id |-> <<>>, name |-> "",
     arguments |-> <<>>, status |-> "", hasContent |-> FALSE, text |-> <<>>]

FunctionCallItem(n, callID, status) ==
    [NoItem EXCEPT !.type = "function_call", !.id = n, !.call_id = callID,
                   !.status = status]

MessageItem(role, status) ==
    [NoItem EXCEPT !.type = "message", !.id = MsgID, !.role = role, !.status = status]

\* One written SSE event: its event name, the item it carries, its delta.
Event(type, item, delta) == [type |-> type, item |-> item, delta |-> delta]

CreatedEvent   == Event("response.created", NoItem, <<>>)
CompletedEvent == Event("response.completed", NoItem, <<>>)
AddedEvent(item) == Event("response.output_item.added", item, <<>>)
DoneEvent(item)  == Event("response.output_item.done", item, <<>>)
TextDeltaEvent(d) == Event("response.output_text.delta", NoItem, d)

\* models.ToolCall as it appears in a delta or in a message.
ToolCall(id, name, args) == [id |-> id, name |-> name, arguments |-> args]

\* The upstream stream's lines.  marker: the line's prefix ("data: ", "data:" or
\* none of them); kind: what follows the prefix ("done": the text [DONE], "bad":
\* text json.Unmarshal rejects, "chunk": a ChatCompletionChunk); choices: the
\* chunk's choices, each a delta {content, tool_calls}.
Line(marker, kind, choices) == [marker |-> marker, kind |-> kind, choices |-> choices]
Delta(content, tcs) == <<[content |-> content, tool_calls |-> tcs]>>

IdC1  == <<99, 49>>   \* "c1"
IdSOH == <<1>>        \* "\x01": a call id whose hash is a small number
FragA == <<"{", "a">>
FragB == <<"}">>

ToolDeltas ==
    { ToolCall(IdC1, "f", <<>>),        \* first chunk of a call: id and name
      ToolCall(<<>>, "", FragA),        \* later chunks: argument fragments
      ToolCall(<<>>, "", FragB),
      ToolCall(IdSOH, "g", FragA) }     \* a call whose every chunk repeats the id

Lines ==
    { Line("data: ", "chunk", Delta(<<"H">>, <<>>)),
      Line("data:",  "chunk", Delta(<<"i">>, <<>>)),
      Line("data: ", "chunk", <<>>),
      Line("data: ", "bad",   <<>>),
      Line("",       "chunk", Delta(<<"H">>, <<>>)),
      Line("data: ", "done",  <<>>) }
    \cup { Line("data: ", "chunk", Delta(<<>>, <<t>>)) : t \in ToolDeltas }

(***************************************************************************)
(* hashToolCallID.  Go's int is 64 bits wide; the ids of this model are at *)
(* most two characters long, so hash*31 + c never wraps here.              *)
(***************************************************************************)
RECURSIVE HashFrom(_, _)
HashFrom(hash, id) ==
    IF id = <<>> THEN hash ELSE HashFrom(hash * 31 + Head(id), Tail(id))

hashToolCallID(id) ==
    LET hash == HashFrom(0, id) IN IF hash < 0 THEN 0 - hash ELSE hash

(***************************************************************************)
(* The body of "for _, tc := range delta.ToolCalls": st is the loop's      *)
(* state, [tcs: the map, ctr: currentToolID, evs: the events written].     *)
(***************************************************************************)
ToolKey(st, tc) ==
    IF tc.id # <<>> /\ Len(tc.id) > 0 THEN hashToolCallID(tc.id) ELSE st.ctr

ApplyToolDelta(st, tc) ==
    LET idx    == ToolKey(st, tc)
        exists == idx \in DOMAIN st.tcs
        item   == IF exists THEN st.tcs[idx]
                  ELSE FunctionCallItem(st.ctr, tc.id, "in_progress")
        slot   == IF exists THEN idx ELSE st.ctr
        upd    == [item EXCEPT
                     !.name = IF tc.name # "" THEN tc.name ELSE @,
                     !.arguments = IF tc.arguments # <<>> THEN @ \o tc.arguments ELSE @]
    IN  [tcs |-> [k \in DOMAIN st.tcs \cup {slot} |->
                     IF k = slot THEN upd ELSE st.tcs[k]],
         ctr |-> IF exists THEN st.ctr ELSE st.ctr + 1,
         evs |-> IF exists THEN st.evs ELSE Append(st.evs, AddedEvent(item))]

RECURSIVE ApplyToolDeltas(_, _)
ApplyToolDeltas(st, tcs) ==
    IF tcs = <<>> THEN st
    ELSE ApplyToolDeltas(ApplyToolDelta(st, Head(tcs)), Tail(tcs))

\* Mutant of TextEvents: the messageItemAdded flag is not consulted.
TextEventsAlwaysAdded(added, content) ==
    IF content = <<>> THEN <<>>
    ELSE <<AddedEvent(MessageItem("assistant", "in_progress")), TextDeltaEvent(content)>>

\* The text part of one delta: the events it writes.
TextEvents(added, content) ==
    IF content = <<>> THEN <<>>
    ELSE (IF added THEN <<>> ELSE <<AddedEvent(MessageItem("assistant", "in_progress"))>>)
         \o <<TextDeltaEvent(content)>>

\* Mutant of DoneEvents: the message's done event is written before the tool calls'.
DoneEventsMessageFirst(tcs, order, text) ==
    <<DoneEvent([MessageItem("assistant", "completed") EXCEPT
                    !.hasContent = TRUE, !.text = text])>>
    \o [i \in 1..Len(order) |-> DoneEvent(tcs[order[i]])]
    \o <<CompletedEvent>>

\* What the [DONE] branch writes: order is the order in which range visits the map.
DoneEvents(tcs, order, text) ==
    [i \in 1..Len(order) |-> DoneEvent(tcs[order[i]])]
    \o <<DoneEvent([MessageItem("assistant", "completed") EXCEPT
                       !.hasContent = TRUE, !.text = text])>>
    \o <<CompletedEvent>>

\* The StreamResult built after the loop; order as above.
StreamResult(text, tcs, order) ==
    [OutputText |-> text, ToolCalls |-> [i \in 1..Len(order) |-> tcs[order[i]]]]

NoResult == [OutputText |-> <<>>, ToolCalls |-> <<>>]

\* Mutant of HasData: a line without the data marker is read as data.
HasDataAnyLine(line) == TRUE

\* The data the loop extracts from a line, or none when the line is skipped.
HasData(line) == line.marker = "data: " \/ line.marker = "data:"

(***************************************************************************)
(* The stream translator's steps.                                          *)
(***************************************************************************)
StreamFrame == UNCHANGED <<orchVars, mcpVars, turnVars, convVars,
                           respVars, mgrVars, parseVars, simVars, histVars>>

StreamInit ==
    /\ sPc = "start"
    /\ sInput = <<>>
    /\ outputText = <<>>
    /\ currentToolID = 0
    /\ toolCalls = <<>>
    /\ messageItemAdded = FALSE
    /\ events = <<>>
    /\ sReadErr = FALSE
    /\ sResult = NoResult

\* Lines 65-94: the headers, response.created, the scanner and the state.
StreamStart ==
    /\ sPc = "start"
    /\ sPc' = "reading"
    /\ events' = Append(events, CreatedEvent)
    /\ UNCHANGED <<sInput, outputText, currentToolID, toolCalls,
                   messageItemAdded, sReadErr, sResult>>
    /\ StreamFrame

\* A line the loop passes over with continue: no data prefix, an undecodable
\* payload, or a chunk without choices.
StreamSkip(line) ==
    /\ sPc = "reading"
    /\ Len(sInput) < MaxLines
    /\ \/ ~HasData(line)
       \/ HasData(line) /\ line.kind = "bad"
       \/ HasData(line) /\ line.kind = "chunk" /\ Len(line.choices) = 0
    /\ sInput' = Append(sInput, line)
    /\ UNCHANGED <<sPc, outputText, currentToolID, toolCalls, messageItemAdded,
                   events, sReadErr, sResult>>
    /\ StreamFrame

\* A chunk with a first choice: its text, then its tool calls.
StreamDelta(line) ==
    /\ sPc = "reading"
    /\ Len(sInput) < MaxLines
    /\ HasData(line) /\ line.kind = "chunk" /\ Len(line.choices) > 0
    /\ LET delta == line.choices[1]
           st == ApplyToolDeltas(
                     [tcs |-> toolCalls, ctr |-> currentToolID,
                      evs |-> events \o TextEvents(messageItemAdded, delta.content)],
                     delta.tool_calls)
       IN  /\ sInput' = Append(sInput, line)
           /\ messageItemAdded' = (messageItemAdded \/ delta.content # <<>>)
           /\ outputText' = outputText \o delta.content
           /\ toolCalls' = st.tcs
           /\ currentToolID' = st.ctr
           /\ events' = st.evs
    /\ UNCHANGED <<sPc, sReadErr, sResult>>
    /\ StreamFrame

\* The [DONE] sentinel: the done events, response.completed, break, and the
\* result built after the loop.  Both range loops over the map take an order
\* of their own.
StreamDone(line) ==
    /\ sPc = "reading"
    /\ Len(sInput) < MaxLines
    /\ HasData(line) /\ line.kind = "done"
    /\ sInput' = Append(sInput, line)
    /\ \E o1 \in Orders(DOMAIN toolCalls), o2 \in Orders(DOMAIN toolCalls) :
          /\ events' = events \o DoneEvents(toolCalls, o1, outputText)
          /\ sResult' = StreamResult(outputText, toolCalls, o2)
    /\ sPc' = "returned"
    /\ UNCHANGED <<outputText, currentToolID, toolCalls, messageItemAdded, sReadErr>>
    /\ StreamFrame

\* scanner.Scan() returns false: the body ended (err = FALSE) or reading it
\* failed (err = TRUE); lines 235-246.
StreamEnd(err) ==
    /\ sPc = "reading"
    /\ sReadErr' = err
    /\ \E o2 \in Orders(DOMAIN toolCalls) :
          sResult' = StreamResult(outputText, toolCalls, o2)
    /\ sPc' = "returned"
    /\ UNCHANGED <<sInput, outputText, currentToolID, toolCalls,
                   messageItemAdded, events>>
    /\ StreamFrame

StreamNext ==
    \/ StreamStart
    \/ \E line \in Lines : StreamSkip(line)
    \/ \E line \in Lines : StreamDelta(line)
    \/ \E line \in Lines : StreamDone(line)
    \/ \E err \in BOOLEAN : StreamEnd(err)

(***************************************************************************)
(* ConvertResponse: the output list and the message text of the Front      *)
(* response built from a Back response with the given choices.             *)
(***************************************************************************)
ChatMessage(role, content, tcs, tcid) ==
    [role |-> role, content |-> content, tool_calls |-> tcs, tool_call_id |-> tcid]

\* Mutant of ConvertResponseOutput: the message item is put in front of the
\* function_call items.
ConvertResponseOutputMessageFirst(choices) ==
    IF Len(choices) > 0
    THEN LET message == choices[1].message
         IN  <<IF message.content # <<>>
               THEN [MessageItem(message.role, "") EXCEPT
                        !.hasContent = TRUE, !.text = message.content]
               ELSE MessageItem(message.role, "")>>
             \o [i \in 1..Len(message.tool_calls) |->
                    [FunctionCallItem(FcID, message.tool_calls[i].id, "completed") EXCEPT
                        !.name = message.tool_calls[i].name,
                        !.arguments = message.tool_calls[i].arguments]]
    ELSE <<>>

ConvertResponseOutput(choices) ==
    IF Len(choices) > 0
    THEN LET message == choices[1].message
             outputItem ==
                 IF message.content # <<>>
                 THEN [MessageItem(message.role, "") EXCEPT
                          !.hasContent = TRUE, !.text = message.content]
                 ELSE MessageItem(message.role, "")
         IN  [i \in 1..Len(message.tool_calls) |->
                 [FunctionCallItem(FcID, message.tool_calls[i].id, "completed") EXCEPT
                     !.name = message.tool_calls[i].name,
                     !.arguments = message.tool_calls[i].arguments]]
             \o <<outputItem>>
    ELSE <<>>

(***************************************************************************)
(* HandleWithWebSearch.                                                    *)
(***************************************************************************)
\* Mutant of maxIterations: the loop bound is one short.
maxIterationsOneShort == 5 - 1

maxIterations == 5

\* The caller's chatReq.
ChatReqMessages == <<ChatMessage("user", <<"hello">>, <<>>, <<>>)>>

ChatReq ==
    [model |-> "m", messages |-> ChatReqMessages, tools |-> <<"web_search">>,
     stream |-> TRUE, temperature |-> 1, max_tokens |-> 16]

\* Mutant of CurrentReq: the caller's stream flag is passed on.
CurrentReqKeepsStream(chatReq, msgs) ==
    [model |-> chatReq.model, messages |-> msgs, tools |-> chatReq.tools,
     stream |-> chatReq.stream, temperature |-> chatReq.temperature,
     max_tokens |-> chatReq.max_tokens]

\* The request of one upstream call (lines 74-81 and 162-169).
CurrentReq(chatReq, msgs) ==
    [model |-> chatReq.model, messages |-> msgs, tools |-> chatReq.tools,
     stream |-> FALSE, temperature |-> chatReq.temperature,
     max_tokens |-> chatReq.max_tokens]

\* Argument strings of a web_search call: a JSON object with a string query,
\* a JSON object without one, and text that is no JSON.
ArgsQuery   == [json |-> "object", query |-> "q1"]
ArgsNoQuery == [json |-> "object", query |-> ""]
ArgsBad     == [json |-> "invalid", query |-> ""]

\* parseQueryFromArguments: (query, err != nil).
parseQueryFromArguments(args) ==
    IF args.json = "invalid" THEN [query |-> "", err |-> TRUE]
    ELSE [query |-> args.query, err |-> FALSE]

WS1   == ToolCall(<<"w1">>, "web_search", ArgsQuery)
WS2   == ToolCall(<<"w2">>, "web_search", ArgsBad)
WS3   == ToolCall(<<"w3">>, "web_search", ArgsNoQuery)
Other == ToolCall(<<"o1">>, "get_weather", ArgsQuery)

\* sendToUpstream's outcomes: err is "" for a decoded response, else where it
\* failed (the transport, a status >= 400, the body's JSON).
UpstreamOK(choices) == [err |-> "", choices |-> choices]
UpstreamFail(why)   == [err |-> why, choices |-> <<>>]
Choice(content, tcs) == <<[message |-> ChatMessage("assistant", content, tcs, <<>>)]>>

Answers ==
    { UpstreamFail("transport"), UpstreamFail("status"), UpstreamFail("parse"),
      UpstreamOK(<<>>),
      UpstreamOK(Choice(<<"done">>, <<>>)),
      UpstreamOK(Choice(<<>>, <<Other>>)),
      UpstreamOK(Choice(<<>>, <<WS1>>)),
      UpstreamOK(Choice(<<>>, <<WS2, Other, WS3>>)) }

NoResp == UpstreamFail("nil")

\* extractWebSearchCalls.
RECURSIVE extractWebSearchCalls(_)
extractWebSearchCalls(tcs) ==
    IF tcs = <<>> THEN <<>>
    ELSE (IF Head(tcs).name = "web_search" THEN <<Head(tcs)>> ELSE <<>>)
         \o extractWebSearchCalls(Tail(tcs))

\* Lines 116-158 for one tool call: found is whether searchManager.Search
\* returned a result (TRUE) or an error (FALSE).
SearchQuery(tc) ==
    LET parsed == parseQueryFromArguments(tc.arguments)
    IN  IF parsed.err THEN "unknown" ELSE parsed.query

\* Mutant of SearchCall: a parse failure alone marks the call failed.
SearchCallFailedOnParse(tc, found) ==
    [ID |-> tc.id, Query |-> SearchQuery(tc),
     Status |-> IF found /\ ~parseQueryFromArguments(tc.arguments).err
                THEN "completed" ELSE "failed"]

\* Mutant of SearchCall: the entry does not take the tool call's id.
SearchCallWithoutID(tc, found) ==
    [ID |-> <<>>, Query |-> SearchQuery(tc),
     Status |-> IF found THEN "completed" ELSE "failed"]

SearchCall(tc, found) ==
    [ID |-> tc.id, Query |-> SearchQuery(tc),
     Status |-> IF found THEN "completed" ELSE "failed"]

\* Mutant of ToolMessage: a failed search leaves the tool message empty.
ToolMessageDropsError(tc, found) ==
    ChatMessage("tool",
                IF found THEN <<"results for", SearchQuery(tc)>> ELSE <<>>,
                <<>>, tc.id)

ToolMessage(tc, found) ==
    ChatMessage("tool",
                IF found THEN <<"results for", SearchQuery(tc)>>
                ELSE <<"Search failed: ", "error">>,
                <<>>, tc.id)

OrchFrame == UNCHANGED <<streamVars, mcpVars, turnVars, convVars,
                         respVars, mgrVars, parseVars, simVars, histVars>>

OrchInit ==
    /\ oPc = "loop"
    /\ oIter = 0
    /\ oChatReq = ChatReq
    /\ messages = oChatReq.messages
    /\ webSearchCalls = <<>>
    /\ upstream = <<>>
    /\ searches = <<>>
    /\ oResp = NoResp
    /\ oErr = FALSE

Sent(ans) == Append(upstream, [req |-> CurrentReq(oChatReq, messages), ans |-> ans])

\* Mutant of OrchUpstreamFail: the failure is swallowed and the loop goes on.
OrchUpstreamFailSwallowed(ans) ==
    /\ oPc = "loop" /\ oIter < maxIterations
    /\ ans.err # ""
    /\ upstream' = Append(upstream, [req |-> CurrentReq(oChatReq, messages), ans |-> ans])
    /\ oIter' = oIter + 1
    /\ UNCHANGED <<oPc, oResp, oErr, oChatReq, messages, webSearchCalls, searches>>
    /\ OrchFrame

\* Lines 84-87: the upstream call of a loop iteration fails.
OrchUpstreamFail(ans) ==
    /\ oPc = "loop" /\ oIter < maxIterations
    /\ ans.err # ""
    /\ upstream' = Sent(ans)
    /\ oPc' = "returned"
    /\ oResp' = NoResp
    /\ oErr' = TRUE
    /\ UNCHANGED <<oIter, oChatReq, messages, webSearchCalls, searches>>
    /\ OrchFrame

\* Lines 90-101: no choices, or no web_search call: the response is final.
OrchReturn(ans) ==
    /\ oPc = "loop" /\ oIter < maxIterations
    /\ ans.err = ""
    /\ \/ Len(ans.choices) = 0
       \/ /\ Len(ans.choices) > 0
          /\ extractWebSearchCalls(ans.choices[1].message.tool_calls) = <<>>
    /\ upstream' = Sent(ans)
    /\ oPc' = "returned"
    /\ oResp' = ans
    /\ oErr' = FALSE
    /\ UNCHANGED <<oIter, oChatReq, messages, webSearchCalls, searches>>
    /\ OrchFrame

\* Lines 103-158: the assistant message, then one search and one tool message
\* per web_search call; found[k] is the outcome of the k-th search.
OrchSearchRound(ans, found) ==
    /\ oPc = "loop" /\ oIter < maxIterations
    /\ ans.err = "" /\ Len(ans.choices) > 0
    /\ LET choice == ans.choices[1]
           ws == extractWebSearchCalls(choice.message.tool_calls)
       IN  /\ ws # <<>>
           /\ Len(found) = Len(ws)
           /\ upstream' = Sent(ans)
           /\ messages' =
                 Append(messages,
                        ChatMessage("assistant", choice.message.content,
                                    choice.message.tool_calls, <<>>))
                 \o [k \in 1..Len(ws) |-> ToolMessage(ws[k], found[k])]
           /\ webSearchCalls' =
                 webSearchCalls \o [k \in 1..Len(ws) |-> SearchCall(ws[k], found[k])]
           /\ searches' =
                 searches \o [k \in 1..Len(ws) |->
                                 [query |-> SearchQuery(ws[k]), found |-> found[k]]]
    /\ oIter' = oIter + 1
    /\ UNCHANGED <<oPc, oResp, oErr, oChatReq>>
    /\ OrchFrame

\* Lines 161-172: the loop ran out; one more call, returned as it is.
OrchFinal(ans) ==
    /\ oPc = "loop" /\ ~(oIter < maxIterations)
    /\ upstream' = Sent(ans)
    /\ oPc' = "returned"
    /\ oResp' = IF ans.err # "" THEN NoResp ELSE ans
    /\ oErr' = (ans.err # "")
    /\ UNCHANGED <<oIter, oChatReq, messages, webSearchCalls, searches>>
    /\ OrchFrame

Founds == UNION {[1..n -> BOOLEAN] : n \in 1..3}

OrchNext ==
    \/ \E ans \in Answers : OrchUpstreamFail(ans)
    \/ \E ans \in Answers : OrchReturn(ans)
    \/ \E ans \in Answers, found \in Founds : OrchSearchRound(ans, found)
    \/ \E ans \in Answers : OrchFinal(ans)

(***************************************************************************)
(* MCPProvider: Search calls running concurrently on one provider.         *)
(* A session id is a number: 0 is the empty string, n > 0 the n-th token   *)
(* the server issued.                                                      *)
(***************************************************************************)
Callers == 1..NumCallers
\* The caller whose Search is recorded: the first one.
Observed == CHOOSE p \in Callers : \A q \in Callers : p <= q

\* Mutant of MaxAttempts: the loop runs once, so nothing is retried.
MaxAttemptsNoRetry == 2 - 1

MaxAttempts == 2          \* for attempt := 0; attempt < 2; attempt++
NoHeader == 0 - 1         \* the request carries no mcp-session-id header

\* What a tools/call exchange can come to.  transport: sendMCPRequest returned
\* an error (send, read or envelope decoding).  hasError: the envelope has an
\* error member, with its code and whether its message contains "apikey".
\* Otherwise result: decodes (json.Unmarshal accepts it as a content result),
\* isError and the first content text, if any ("apikey": text containing
\* apikey or -401; "results": text parseResults decodes; "garbage": text it
\* rejects).
McpAnswer(transport, hasError, code, apikey, decodes, isError, content) ==
    [transport |-> transport, hasError |-> hasError, code |-> code,
     apikey |-> apikey, decodes |-> decodes, isError |-> isError,
     content |-> content]

AnsTransport == McpAnswer(TRUE, FALSE, 0, FALSE, FALSE, FALSE, <<>>)
ErrEnvelope(code, apikey) == McpAnswer(FALSE, TRUE, code, apikey, FALSE, FALSE, <<>>)
ResultEnvelope(isError, content) ==
    McpAnswer(FALSE, FALSE, 0, FALSE, TRUE, isError, content)
BadResult == McpAnswer(FALSE, FALSE, 0, FALSE, FALSE, FALSE, <<>>)

McpAnswers ==
    { AnsTransport,
      ErrEnvelope(0 - 401, FALSE),
      ErrEnvelope(0 - 32000, FALSE),
      ErrEnvelope(0 - 32000, TRUE),
      BadResult,
      ResultEnvelope(TRUE, <<"apikey">>),
      ResultEnvelope(TRUE, <<"other">>),
      ResultEnvelope(FALSE, <<>>),
      ResultEnvelope(FALSE, <<"results">>),
      ResultEnvelope(FALSE, <<"garbage">>) }

\* Mutant of IsAuthError: every negative code counts as an expired session.
IsAuthErrorAnyNegative(code, apikey) == code < 0 \/ apikey

\* Line 301: the error envelopes Search takes for an expired session.
IsAuthError(code, apikey) == code = 0 - 401 \/ apikey

\* Mutant of Decide: a transport failure is retried like an auth failure.
DecideRetriesTransport(ans) ==
    IF ans.transport THEN "retry"
    ELSE IF ans.hasError
         THEN (IF IsAuthError(ans.code, ans.apikey) THEN "retry" ELSE "err_tool")
    ELSE IF ~ans.decodes THEN "err_content"
    ELSE IF ans.isError
         THEN (IF Len(ans.content) > 0
               THEN (IF ans.content[1] = "apikey" THEN "retry" ELSE "err_mcp")
               ELSE "err_mcp")
    ELSE IF Len(ans.content) = 0 THEN "err_nocontent"
    ELSE IF ans.content[1] = "results" THEN "ok"
    ELSE "err_results"

\* Lines 294-345: what Search does with the answer of one tools/call:
\* "retry" (clearSession and continue), "ok" (results returned) or the error
\* it returns.
Decide(ans) ==
    IF ans.transport THEN "err_call"
    ELSE IF ans.hasError
         THEN (IF IsAuthError(ans.code, ans.apikey) THEN "retry" ELSE "err_tool")
    ELSE IF ~ans.decodes THEN "err_content"
    ELSE IF ans.isError
         THEN (IF Len(ans.content) > 0
               THEN (IF ans.content[1] = "apikey" THEN "retry" ELSE "err_mcp")
               ELSE "err_mcp")
    ELSE IF Len(ans.content) = 0 THEN "err_nocontent"
    ELSE IF ans.content[1] = "results" THEN "ok"
    ELSE "err_results"

\* The answers to an initialize request: the transport failed, a response
\* with a session header, a response without one.
Handshakes == {"fail", "token", "notoken"}

\* Every caller is at Search's entry, IsAvailable passed (the API key is set).
McpInit ==
    /\ pc = [p \in Callers |-> "ensure_lock"]
    /\ sessionID = 0
    /\ sessionMutex = 0
    /\ attempt = [p \in Callers |-> 0]
    /\ attach = [p \in Callers |-> NoHeader]
    /\ tokens = 0
    /\ calls = <<>>
    /\ inits = 0
    /\ lastShake = "none"
    /\ fresh = FALSE
    /\ outcome = "none"

McpFrame == UNCHANGED <<streamVars, orchVars, turnVars, convVars,
                        respVars, mgrVars, parseVars, simVars, histVars>>

\* Mutant of McpEnsureLock: ensureSession goes on without the mutex being free.
McpEnsureLockNoWait(p) ==
    /\ pc[p] = "ensure_lock"
    /\ sessionMutex' = p
    /\ pc' = [pc EXCEPT ![p] = "ensure_check"]
    /\ UNCHANGED <<sessionID, attempt, attach, calls, inits, lastShake, tokens, fresh, outcome>>
    /\ McpFrame

\* ensureSession, line 121: p.sessionMutex.Lock().
McpEnsureLock(p) ==
    /\ pc[p] = "ensure_lock"
    /\ sessionMutex = 0
    /\ sessionMutex' = p
    /\ pc' = [pc EXCEPT ![p] = "ensure_check"]
    /\ UNCHANGED <<sessionID, attempt, attach, calls, inits, lastShake, tokens, fresh, outcome>>
    /\ McpFrame

\* ensureSession, lines 125-127: a session exists: unlock and return nil.
McpEnsureReuse(p) ==
    /\ pc[p] = "ensure_check"
    /\ sessionID # 0
    /\ sessionMutex' = 0
    /\ pc' = [pc EXCEPT ![p] = "send"]
    /\ UNCHANGED <<sessionID, attempt, attach, calls, inits, lastShake, tokens, fresh, outcome>>
    /\ McpFrame

\* ensureSession, lines 125-145: no session: build the initialize request.
McpEnsureNew(p) ==
    /\ pc[p] = "ensure_check"
    /\ sessionID = 0
    /\ pc' = [pc EXCEPT ![p] = "handshake"]
    /\ UNCHANGED <<sessionID, sessionMutex, attempt, attach, calls, inits, lastShake,
                   tokens, fresh, outcome>>
    /\ McpFrame

\* Mutant of McpHandshake: a response without a session header makes
\* ensureSession fail.
McpHandshakeTokenRequired(p, hs) ==
    /\ pc[p] = "handshake"
    /\ tokens' = IF hs = "token" THEN tokens + 1 ELSE tokens
    /\ sessionID' = IF hs = "token" THEN tokens + 1
                    ELSE IF hs = "notoken" THEN 0 ELSE sessionID
    /\ sessionMutex' = 0
    /\ pc' = [pc EXCEPT ![p] = IF hs = "token" THEN "send" ELSE "done"]
    /\ inits' = IF p = Observed THEN inits + 1 ELSE inits
    /\ lastShake' = IF p = Observed THEN hs ELSE lastShake
    /\ fresh' = (fresh \/ hs # "fail")
    /\ outcome' = IF p = Observed /\ hs # "token" THEN "err_session" ELSE outcome
    /\ UNCHANGED <<attempt, attach, calls>>
    /\ McpFrame

\* ensureSession, lines 165-200: the initialize exchange, the write of
\* p.sessionID and the deferred Unlock.
McpHandshake(p, hs) ==
    /\ pc[p] = "handshake"
    /\ tokens' = IF hs = "token" THEN tokens + 1 ELSE tokens
    /\ sessionID' = IF hs = "token" THEN tokens + 1
                    ELSE IF hs = "notoken" THEN 0 ELSE sessionID
    /\ sessionMutex' = 0
    /\ pc' = [pc EXCEPT ![p] = IF hs = "fail" THEN "done" ELSE "send"]
    /\ inits' = IF p = Observed THEN inits + 1 ELSE inits
    /\ lastShake' = IF p = Observed THEN hs ELSE lastShake
    /\ fresh' = (fresh \/ hs # "fail")
    /\ outcome' = IF p = Observed /\ hs = "fail" THEN "err_session" ELSE outcome
    /\ UNCHANGED <<attempt, attach, calls>>
    /\ McpFrame

\* sendMCPRequest, line 223: if p.sessionID != "".
McpSendCheck(p) ==
    /\ pc[p] = "send"
    /\ IF sessionID # 0
       THEN pc' = [pc EXCEPT ![p] = "attach"] /\ UNCHANGED attach
       ELSE /\ pc' = [pc EXCEPT ![p] = "exchange"]
            /\ attach' = [attach EXCEPT ![p] = NoHeader]
    /\ UNCHANGED <<sessionID, sessionMutex, attempt, calls, inits, lastShake, tokens,
                   fresh, outcome>>
    /\ McpFrame

\* sendMCPRequest, line 224: Header.Set("mcp-session-id", p.sessionID).
McpSendAttach(p) ==
    /\ pc[p] = "attach"
    /\ attach' = [attach EXCEPT ![p] = sessionID]
    /\ pc' = [pc EXCEPT ![p] = "exchange"]
    /\ UNCHANGED <<sessionID, sessionMutex, attempt, calls, inits, lastShake, tokens,
                   fresh, outcome>>
    /\ McpFrame

\* sendMCPRequest, lines 227-251, and Search, lines 294-346: the tools/call
\* exchange and what Search makes of its answer.
McpExchange(p, ans) ==
    /\ pc[p] = "exchange"
    /\ calls' = IF p = Observed THEN Append(calls, ans) ELSE calls
    /\ attach' = [attach EXCEPT ![p] = NoHeader]     \* httpReq is gone
    /\ LET d == Decide(ans)
       IN  IF d = "retry"
           THEN pc' = [pc EXCEPT ![p] = "clear_lock"] /\ UNCHANGED outcome
           ELSE /\ pc' = [pc EXCEPT ![p] = "done"]
                /\ outcome' = IF p = Observed THEN d ELSE outcome
    /\ UNCHANGED <<sessionID, sessionMutex, attempt, inits, lastShake, tokens, fresh>>
    /\ McpFrame

\* clearSession, line 353: p.sessionMutex.Lock().
McpClearLock(p) ==
    /\ pc[p] = "clear_lock"
    /\ sessionMutex = 0
    /\ sessionMutex' = p
    /\ pc' = [pc EXCEPT ![p] = "clear_write"]
    /\ UNCHANGED <<sessionID, attempt, attach, calls, inits, lastShake, tokens, fresh, outcome>>
    /\ McpFrame

\* clearSession, lines 354-355, then Search's continue: attempt++ and either
\* the next round or, the loop over, "failed after retry" (line 348).
McpClearWrite(p) ==
    /\ pc[p] = "clear_write"
    /\ sessionID' = 0
    /\ sessionMutex' = 0
    /\ fresh' = IF p = Observed THEN FALSE ELSE fresh
    /\ attempt' = [attempt EXCEPT ![p] = @ + 1]
    /\ IF attempt[p] + 1 < MaxAttempts
       THEN pc' = [pc EXCEPT ![p] = "ensure_lock"] /\ UNCHANGED outcome
       ELSE /\ pc' = [pc EXCEPT ![p] = "done"]
            /\ outcome' = IF p = Observed THEN "err_retry" ELSE outcome
    /\ UNCHANGED <<attach, calls, inits, lastShake, tokens>>
    /\ McpFrame

McpNext ==
    \/ \E p \in Callers : McpEnsureLock(p)
    \/ \E p \in Callers : McpEnsureReuse(p)
    \/ \E p \in Callers : McpEnsureNew(p)
    \/ \E p \in Callers, hs \in Handshakes : McpHandshake(p, hs)
    \/ \E p \in Callers : McpSendCheck(p)
    \/ \E p \in Callers : McpSendAttach(p)
    \/ \E p \in Callers, ans \in McpAnswers : McpExchange(p, ans)
    \/ \E p \in Callers : McpClearLock(p)
    \/ \E p \in Callers : McpClearWrite(p)

\* The same calls against a server that answers every initialize with a
\* session header.
McpTokenNext ==
    \/ \E p \in Callers : McpEnsureLock(p)
    \/ \E p \in Callers : McpEnsureReuse(p)
    \/ \E p \in Callers : McpEnsureNew(p)
    \/ \E p \in Callers : McpHandshake(p, "token")
    \/ \E p \in Callers : McpSendCheck(p)
    \/ \E p \in Callers : McpSendAttach(p)
    \/ \E p \in Callers, ans \in McpAnswers : McpExchange(p, ans)
    \/ \E p \in Callers : McpClearLock(p)
    \/ \E p \in Callers : McpClearWrite(p)

(***************************************************************************)
(* One turn of HandleWithWebSearch seen from its outbound HTTP requests,   *)
(* with the inbound caller's context.  A request is [kind, ctx, live]:     *)
(* ctx is the context it was built with ("caller": derived from the        *)
(* inbound request's; "background": context.Background() with a timeout),  *)
(* live is whether the transport is still running it.                      *)
(***************************************************************************)
Request(kind, ctx) == [kind |-> kind, ctx |-> ctx, live |-> TRUE]
NoCall == [kind |-> "none", ctx |-> "none", live |-> FALSE]

\* websearch.go:215: http.NewRequestWithContext(ctx, ...).
UpstreamRequest == Request("upstream", "caller")
\* part_002:153-156: the initialize request.
InitializeRequest == Request("initialize", "background")
\* part_002:210-213: the tools/call request.
ToolsCallRequest == Request("tools/call", "background")
\* part_001:110-113: the REST search request.
FirecrawlRequest == Request("firecrawl", "background")

\* The first request of provider.Search(query).
FirstSearchRequest(provider, session) ==
    IF provider = "firecrawl" THEN FirecrawlRequest
    ELSE IF session THEN ToolsCallRequest ELSE InitializeRequest

\* Cancelling a context ends the requests built with it, and no others.
AfterCancel(req, ctx) == IF req.ctx = ctx THEN [req EXCEPT !.live = FALSE] ELSE req

MaxWebSearchCalls == 2     \* web_search calls in one upstream response

TurnFrame == UNCHANGED <<streamVars, orchVars, mcpVars, convVars,
                         respVars, mgrVars, parseVars, simVars, histVars>>

TurnInit ==
    /\ tPc = "new"
    /\ tIter = 0
    /\ tTodo = 0
    /\ tCtxDone = FALSE
    /\ tInflight = NoCall
    /\ tSession = FALSE
    /\ tProvider = "unset"
    /\ tErr = FALSE

\* The registry as NewManager built it (manager.go:21-67) and the provider's
\* session as earlier turns left it, when HandleWithWebSearch is entered.
TurnEnter(provider, session) ==
    /\ tPc = "new"
    /\ tPc' = "loop"
    /\ tProvider' = provider
    /\ tSession' = (session /\ provider = "mcp")
    /\ UNCHANGED <<tIter, tTodo, tCtxDone, tInflight, tErr>>
    /\ TurnFrame

\* The inbound caller disconnects: its context is cancelled.
TurnCancel ==
    /\ tPc \in {"loop", "search"}
    /\ ~tCtxDone
    /\ tCtxDone' = TRUE
    /\ tInflight' = AfterCancel(tInflight, "caller")
    /\ UNCHANGED <<tPc, tIter, tTodo, tSession, tProvider, tErr>>
    /\ TurnFrame

\* sendToUpstream, lines 206-224: the request of a loop iteration or the final
\* one.  With the context already cancelled client.Do fails at once.
TurnSendUpstream ==
    /\ tPc = "loop"
    /\ tInflight = NoCall
    /\ tInflight' = IF tCtxDone THEN AfterCancel(UpstreamRequest, "caller")
                    ELSE UpstreamRequest
    /\ UNCHANGED <<tPc, tIter, tTodo, tCtxDone, tSession, tProvider, tErr>>
    /\ TurnFrame

\* sendToUpstream returns: n < 0 is an error, otherwise the number of
\* web_search calls of the response.  A cancelled request returns an error.
TurnUpstreamAnswer(n) ==
    /\ tPc = "loop"
    /\ tInflight.kind = "upstream"
    /\ ~tInflight.live => n < 0
    /\ tInflight' = NoCall
    /\ IF n > 0 /\ tIter < maxIterations
       THEN tPc' = "search" /\ tTodo' = n /\ UNCHANGED tErr
       ELSE tPc' = "returned" /\ tErr' = (n < 0) /\ UNCHANGED tTodo
    /\ UNCHANGED <<tIter, tCtxDone, tSession, tProvider>>
    /\ TurnFrame

\* One search of the round is over (lines 134-158); after the last one the
\* loop goes to its next iteration.
SearchEnds ==
    /\ tInflight' = NoCall
    /\ tTodo' = tTodo - 1
    /\ tPc' = IF tTodo = 1 THEN "loop" ELSE "search"
    /\ tIter' = IF tTodo = 1 THEN tIter + 1 ELSE tIter

\* websearch.go:133: h.searchManager.Search(query), which takes no context.
\* With the registry disabled or without a usable provider it fails before
\* any request (manager.go:84-86, 106).
TurnSearchStart ==
    /\ tPc = "search"
    /\ tInflight = NoCall
    /\ IF tProvider = "none"
       THEN SearchEnds
       ELSE /\ tInflight' = FirstSearchRequest(tProvider, tSession)
            /\ UNCHANGED <<tPc, tIter, tTodo>>
    /\ UNCHANGED <<tCtxDone, tSession, tProvider, tErr>>
    /\ TurnFrame

\* The provider's request is answered (ok) or fails, its timeout included.
\* An answered initialize is followed by the tools/call request; any other
\* outcome ends this search, and the last search of a round ends the round.
TurnSearchAnswer(ok) ==
    /\ tPc = "search"
    /\ tInflight.kind \in {"initialize", "tools/call", "firecrawl"}
    /\ tInflight.live
    /\ IF tInflight.kind = "initialize" /\ ok
       THEN /\ tSession' = TRUE
            /\ tInflight' = ToolsCallRequest
            /\ UNCHANGED <<tPc, tIter, tTodo>>
       ELSE SearchEnds /\ UNCHANGED tSession
    /\ UNCHANGED <<tCtxDone, tProvider, tErr>>
    /\ TurnFrame

TurnNext ==
    \/ \E provider \in {"mcp", "firecrawl", "none"}, session \in BOOLEAN :
          TurnEnter(provider, session)
    \/ TurnCancel
    \/ TurnSendUpstream
    \/ \E n \in (0 - 1)..MaxWebSearchCalls : TurnUpstreamAnswer(n)
    \/ TurnSearchStart
    \/ \E ok \in BOOLEAN : TurnSearchAnswer(ok)

(***************************************************************************)
(* ConvertRequest.  A message's content is nil, a string or a list of       *)
(* parts; ids, names and texts are strings.                                *)
(***************************************************************************)
NilContent == [kind |-> "nil", text |-> "", parts |-> <<>>]
StringContent(text) == [kind |-> "string", text |-> text, parts |-> <<>>]
PartsContent(parts) == [kind |-> "parts", text |-> "", parts |-> parts]

\* models.ChatContentPart.
ChatContentPart(type, text, url) == [type |-> type, text |-> text, url |-> url]

\* models.ContentItem and models.InputItem.
ContentItem(type, text, image_url, data) ==
    [type |-> type, text |-> text, image_url |-> image_url, data |-> data]

InputItem(type, role, content, call_id, name, arguments, output) ==
    [type |-> type, role |-> role, content |-> content, call_id |-> call_id,
     name |-> name, arguments |-> arguments, output |-> output]

MessageInput(role, content) == InputItem("message", role, content, "", "", "", "")

\* The nil *ChatMessage.
NilMessage == [role |-> "nil", content |-> NilContent, tool_calls |-> <<>>,
               tool_call_id |-> ""]

\* One content item of the multimodal branch (lines 459-479): the parts it adds.
ConvertContentItem(c) ==
    IF c.type = "input_text" THEN <<ChatContentPart("text", c.text, "")>>
    ELSE IF c.type = "input_image"
         THEN <<ChatContentPart("image_url", "",
                                IF c.image_url = "" /\ c.data # "" THEN c.data
                                ELSE c.image_url)>>
    ELSE <<>>

\* Lines 451-487: the content of a message item's translation.
MessageContent(item) ==
    LET parts == Concat([i \in DOMAIN item.content |->
                            ConvertContentItem(item.content[i])])
    IN  IF Len(item.content) = 0 THEN NilContent
        ELSE IF Len(item.content) = 1 /\ item.content[1].type = "input_text"
             THEN StringContent(item.content[1].text)
        ELSE IF Len(parts) = 1 /\ parts[1].type = "text"
             THEN StringContent(parts[1].text)
        ELSE IF Len(parts) > 0 THEN PartsContent(parts)
        ELSE NilContent

\* Mutant of convertMessageItem: the developer role is rewritten whatever the
\* target supports.
convertMessageItemAlwaysRewrites(item, supportsDeveloperRole) ==
    IF item.role = "" THEN NilMessage
    ELSE ChatMessage(IF item.role = "developer" THEN "user" ELSE item.role,
                     MessageContent(item), <<>>, "")

convertMessageItem(item, supportsDeveloperRole) ==
    IF item.role = "" THEN NilMessage
    ELSE LET role == IF item.role = "developer" /\ ~supportsDeveloperRole
                     THEN "user" ELSE item.role
         IN  ChatMessage(role, MessageContent(item), <<>>, "")

convertFunctionCallItem(item) ==
    ChatMessage("assistant", NilContent,
                <<ToolCall(item.call_id, item.name, item.arguments)>>, "")

convertFunctionCallOutputItem(item) ==
    ChatMessage("tool", StringContent(item.output), <<>>, item.call_id)

convertInputItemToMessage(item, supportsDeveloperRole) ==
    IF item.type = "message" THEN convertMessageItem(item, supportsDeveloperRole)
    ELSE IF item.type = "function_call" THEN convertFunctionCallItem(item)
    ELSE IF item.type = "function_call_output" THEN convertFunctionCallOutputItem(item)
    ELSE NilMessage

\* Mutant of ConvertInput: the messages come out in reverse order.
RECURSIVE ConvertInputReversed(_, _)
ConvertInputReversed(input, supportsDeveloperRole) ==
    IF input = <<>> THEN <<>>
    ELSE LET msg == convertInputItemToMessage(Head(input), supportsDeveloperRole)
         IN  ConvertInputReversed(Tail(input), supportsDeveloperRole)
             \o (IF msg # NilMessage THEN <<msg>> ELSE <<>>)

\* Lines 382-387: the messages of the input items, the nil ones left out.
RECURSIVE ConvertInput(_, _)
ConvertInput(input, supportsDeveloperRole) ==
    IF input = <<>> THEN <<>>
    ELSE LET msg == convertInputItemToMessage(Head(input), supportsDeveloperRole)
         IN  (IF msg # NilMessage THEN <<msg>> ELSE <<>>)
             \o ConvertInput(Tail(input), supportsDeveloperRole)

\* Mutant of HasSystemMsg: a system message in the list goes unnoticed.
HasSystemMsgNever(msgs) == FALSE

\* Lines 365-371.
HasSystemMsg(msgs) == \E i \in DOMAIN msgs : msgs[i].role = "system"

\* Mutant of WithInstructions: the instructions message is appended, not
\* prepended.
WithInstructionsAppended(instructions, msgs) ==
    IF instructions # "" /\ ~(\E i \in DOMAIN msgs : msgs[i].role = "system")
    THEN Append(msgs, ChatMessage("system", StringContent(instructions), <<>>, ""))
    ELSE msgs

\* Lines 363-379: the list with the instructions message in front, if added.
WithInstructions(instructions, msgs) ==
    IF instructions # "" /\ ~HasSystemMsg(msgs)
    THEN <<ChatMessage("system", StringContent(instructions), <<>>, "")>> \o msgs
    ELSE msgs

\* A function's parameters: a JSON schema of type object, its properties
\* (name and type of each) and the names it requires; NoParameters is nil.
Parameters(properties, required) ==
    [type |-> "object", properties |-> properties, required |-> required]

NoParameters == [type |-> "nil", properties |-> {}, required |-> <<>>]

\* models.Tool and models.ChatTool: the type, the function's name and its
\* parameters.
Tool(type, name, parameters) ==
    [type |-> type, name |-> name, parameters |-> parameters]

\* The injected web_search function tool.
WebSearchFunctionTool ==
    Tool("function", "web_search",
         Parameters({[name |-> "query", type |-> "string"]}, <<"query">>))

\* Mutant of ConvertTools: a web_search declaration is left out.
RECURSIVE ConvertToolsFunctionOnly(_)
ConvertToolsFunctionOnly(tools) ==
    IF tools = <<>> THEN <<>>
    ELSE LET tool == Head(tools)
         IN  (IF tool.type = "function" /\ tool.name # "" THEN <<tool>> ELSE <<>>)
             \o ConvertToolsFunctionOnly(Tail(tools))

\* Lines 395-407.
RECURSIVE ConvertTools(_)
ConvertTools(tools) ==
    IF tools = <<>> THEN <<>>
    ELSE LET tool == Head(tools)
         IN  (IF tool.type = "web_search" THEN <<WebSearchFunctionTool>>
              ELSE IF tool.type = "function" /\ tool.name # "" THEN <<tool>>
              ELSE <<>>)
             \o ConvertTools(Tail(tools))

\* Mutant of ConvertRequest: the history is put behind the new input.
ConvertRequestInputFirst(req, modelMapping, history, supportsDeveloperRole) ==
    [Model |-> req.model, Stream |-> req.stream,
     Messages |-> ConvertInput(req.input, supportsDeveloperRole)
                  \o WithInstructions(req.instructions, history),
     Tools |-> ConvertTools(req.tools), Temperature |-> req.temperature,
     MaxTokens |-> req.max_tokens,
     hasWebSearchTool |-> \E i \in DOMAIN req.tools : req.tools[i].type = "web_search"]

\* modelMapping is a function from the mapped names to their targets.
ConvertRequest(req, modelMapping, history, supportsDeveloperRole) ==
    [Model |-> IF req.model \in DOMAIN modelMapping THEN modelMapping[req.model]
               ELSE req.model,
     Stream |-> req.stream,
     Messages |-> WithInstructions(req.instructions, history)
                  \o ConvertInput(req.input, supportsDeveloperRole),
     Tools |-> ConvertTools(req.tools),
     Temperature |-> req.temperature,
     MaxTokens |-> IF req.max_tokens > 0 THEN req.max_tokens ELSE 0,
     hasWebSearchTool |-> \E i \in DOMAIN req.tools : req.tools[i].type = "web_search"]

ModelMapping == [m \in {"gpt-4"} |-> "deepseek-chat"]

\* The input items of the model's requests.
InputItems ==
    { MessageInput("user", <<ContentItem("input_text", "Hi", "", "")>>),
      MessageInput("system", <<ContentItem("input_text", "Be brief", "", "")>>),
      MessageInput("developer", <<ContentItem("input_text", "Dev", "", "")>>),
      MessageInput("user", <<ContentItem("input_text", "Look", "", ""),
                             ContentItem("input_image", "", "", "b64"),
                             ContentItem("refusal", "no", "", "")>>),
      MessageInput("", <<ContentItem("input_text", "Hi", "", "")>>),
      InputItem("reasoning", "", <<>>, "", "", "", ""),
      InputItem("function_call", "", <<>>, "c1", "f", "{}", ""),
      InputItem("function_call_output", "", <<>>, "c1", "", "", "42") }

Inputs == UNION {[1..n -> InputItems] : n \in 0..MaxItems}

\* The histories the store hands over.
Histories ==
    { <<>>,
      <<ChatMessage("user", StringContent("Previous question"), <<>>, "")>>,
      <<ChatMessage("user", StringContent("Previous question"), <<>>, ""),
        ChatMessage("assistant", StringContent("Previous answer"), <<>>, "")>>,
      <<ChatMessage("user", StringContent("Previous question"), <<>>, ""),
        ChatMessage("system", StringContent("Old instructions"), <<>>, "")>> }

\* The rest of a request: model, tools, stream, temperature, max_output_tokens.
Shells ==
    { [model |-> "gpt-4", tools |-> <<>>, stream |-> FALSE,
       temperature |-> "nil", max_tokens |-> 0],
      [model |-> "other", stream |-> TRUE, temperature |-> "0.5", max_tokens |-> 16,
       tools |-> <<Tool("web_search", "", NoParameters),
                   Tool("function", "f", Parameters({}, <<>>)),
                   Tool("function", "", NoParameters),
                   Tool("file_search", "", NoParameters),
                   Tool("function", "web_search",
                        Parameters({[name |-> "q", type |-> "string"]}, <<>>))>>],
      [model |-> "gpt-4", stream |-> FALSE, temperature |-> "nil", max_tokens |-> 0,
       tools |-> <<Tool("function", "get_weather", Parameters({}, <<>>)),
                   Tool("web_search", "", NoParameters),
                   Tool("function", "", NoParameters)>>] }

ResponsesRequest(shell, instructions, input) ==
    [model |-> shell.model, tools |-> shell.tools, stream |-> shell.stream,
     temperature |-> shell.temperature, max_tokens |-> shell.max_tokens,
     instructions |-> instructions, input |-> input]

NoRequest == ResponsesRequest([model |-> "", tools |-> <<>>, stream |-> FALSE,
                               temperature |-> "nil", max_tokens |-> 0], "", <<>>)

ConvFrame == UNCHANGED <<streamVars, orchVars, mcpVars, turnVars,
                         respVars, mgrVars, parseVars, simVars, histVars>>

ConvInit ==
    /\ cPc = "new"
    /\ cReq = NoRequest
    /\ cHistory = <<>>
    /\ cDev = FALSE
    /\ cOut = <<>>

\* A decoded Front request arrives, with the history found for it and the
\* target's supports_developer_role setting.
ConvReceive ==
    /\ cPc = "new"
    /\ \E shell \in Shells, instructions \in {"", "Be helpful"}, input \in Inputs,
          history \in Histories, dev \in BOOLEAN :
          /\ cReq' = ResponsesRequest(shell, instructions, input)
          /\ cHistory' = history
          /\ cDev' = dev
    /\ cPc' = "ready"
    /\ UNCHANGED cOut
    /\ ConvFrame

\* One call of ConvertRequest.  It works on a copy of history (lines 357-360)
\* and writes neither to it nor to req.
ConvCall ==
    /\ cPc = "ready"
    /\ Len(cOut) < MaxConvCalls
    /\ cOut' = Append(cOut, ConvertRequest(cReq, ModelMapping, cHistory, cDev))
    /\ UNCHANGED <<cPc, cReq, cHistory, cDev>>
    /\ ConvFrame

ConvNext ==
    \/ ConvReceive
    \/ ConvCall

(***************************************************************************)
(* ConvertResponse.  Texts are sequences of characters, as in the stream.  *)
(***************************************************************************)
\* models.ChatUsage and models.UsageInfo.
ChatUsage(prompt, completion, total) ==
    [prompt_tokens |-> prompt, completion_tokens |-> completion, total_tokens |-> total]

UsageInfo(input, output, total) ==
    [input_tokens |-> input, output_tokens |-> output, total_tokens |-> total]

\* models.ChatCompletionResponse.
ChatCompletionResponse(choices, usage) ==
    [model |-> "deepseek-chat", choices |-> choices, usage |-> usage]

\* The result's usage (lines 568-575) is the zero UsageInfo unless the
\* response reports a positive total.
ConvertResponse(resp, requestID) ==
    [ID |-> <<"resp-", requestID>>, Object |-> "response", Status |-> "completed",
     Model |-> resp.model, Output |-> ConvertResponseOutput(resp.choices),
     Usage |-> IF resp.usage.total_tokens > 0
               THEN UsageInfo(resp.usage.prompt_tokens, resp.usage.completion_tokens,
                              resp.usage.total_tokens)
               ELSE UsageInfo(0, 0, 0)]

\* The choices of the model's Back responses.
ChoiceLists ==
    { <<>>,
      Choice(<<>>, <<>>),
      Choice(<<"H", "i">>, <<>>),
      Choice(<<>>, <<Other>>),
      Choice(<<"H", "i">>, <<WS1, Other>>),
      Choice(<<"H", "i">>, <<Other, WS1>>),
      Choice(<<"H", "i">>, <<>>) \o Choice(<<"N", "o">>, <<WS1>>) }

RespFrame == UNCHANGED <<streamVars, orchVars, mcpVars, turnVars,
                         convVars, mgrVars, parseVars, simVars, histVars>>

RespInit ==
    /\ rPc = "new"
    /\ rResp = ChatCompletionResponse(<<>>, ChatUsage(0, 0, 0))
    /\ rOut = [ID |-> <<>>, Object |-> "", Status |-> "", Model |-> "",
               Output |-> <<>>, Usage |-> UsageInfo(0, 0, 0)]

\* A Back response has been decoded.
RespReceive ==
    /\ rPc = "new"
    /\ \E choices \in ChoiceLists, prompt, completion, total \in 0..MaxUsage :
          rResp' = ChatCompletionResponse(choices, ChatUsage(prompt, completion, total))
    /\ rPc' = "ready"
    /\ UNCHANGED rOut
    /\ RespFrame

\* One call of ConvertResponse.
RespConvert ==
    /\ rPc = "ready"
    /\ rOut' = ConvertResponse(rResp, "r1")
    /\ rPc' = "done"
    /\ UNCHANGED rResp
    /\ RespFrame

RespNext ==
    \/ RespReceive
    \/ RespConvert

(***************************************************************************)
(* search.Manager.                                                         *)
(***************************************************************************)
\* config.ProviderConfig: the fields NewManager and IsAvailable look at.
ProviderConfig(type, apiKey) == [type |-> type, apiKey |-> apiKey]

ProviderNames == {<<"p", i>> : i \in 1..MaxProviders}

\* config.WebSearchConfig.
WebSearchConfig(enabled, default, providers) ==
    [Enabled |-> enabled, Default |-> default, Providers |-> providers]

\* Lines 21-67: a disabled manager registers nothing; an enabled one
\* registers the entries that have an API key and a known type.  The provider
\* keeps the entry's key (NewMCPProvider, NewFirecrawlProvider).
NewManager(cfg) ==
    LET kept == {n \in DOMAIN cfg.Providers :
                    /\ cfg.Enabled
                    /\ cfg.Providers[n].apiKey # ""
                    /\ cfg.Providers[n].type \in {"mcp", "firecrawl"}}
    IN  [enabled |-> cfg.Enabled, defaultProvider |-> cfg.Default,
         providers |-> [n \in kept |-> cfg.Providers[n]]]

\* MCPProvider.IsAvailable and FirecrawlProvider.IsAvailable.
IsAvailable(p) == p.apiKey # ""

\* The outcome of Manager.Search: the providers it invoked and what it returned
\* (err "" and the provider whose result it is, or the error).
SearchOutcome(invoked, err, from) == [invoked |-> invoked, err |-> err, from |-> from]

\* Mutant of ManagerSearch: the default provider gets no preference.
ManagerSearchNoDefault(m, order, ok) ==
    IF ~m.enabled THEN SearchOutcome(<<>>, "web search is disabled", <<>>)
    ELSE LET avail == SelectSeq(order, LAMBDA n : IsAvailable(m.providers[n]))
         IN  IF avail # <<>>
             THEN SearchOutcome(<<avail[1]>>, IF ok THEN "" ELSE "provider", avail[1])
             ELSE SearchOutcome(<<>>, "no available search provider", <<>>)

\* Lines 83-107.  order is the order in which the range over m.providers
\* runs; ok tells whether the invoked provider's Search succeeds.
ManagerSearch(m, order, ok) ==
    IF ~m.enabled THEN SearchOutcome(<<>>, "web search is disabled", <<>>)
    ELSE IF /\ m.defaultProvider # <<>>
            /\ m.defaultProvider \in DOMAIN m.providers
            /\ IsAvailable(m.providers[m.defaultProvider])
    THEN SearchOutcome(<<m.defaultProvider>>, IF ok THEN "" ELSE "provider",
                       m.defaultProvider)
    ELSE LET avail == SelectSeq(order, LAMBDA n : IsAvailable(m.providers[n]))
         IN  IF avail # <<>>
             THEN SearchOutcome(<<avail[1]>>, IF ok THEN "" ELSE "provider", avail[1])
             ELSE SearchOutcome(<<>>, "no available search provider", <<>>)

MgrFrame == UNCHANGED <<streamVars, orchVars, mcpVars, turnVars,
                        convVars, respVars, parseVars, simVars, histVars>>

MgrInit ==
    /\ mPc = "new"
    /\ mMgr = NewManager(WebSearchConfig(FALSE, <<>>, <<>>))
    /\ mInvoked = <<>>
    /\ mResult = SearchOutcome(<<>>, "", <<>>)

\* NewManager on the loaded configuration.
MgrNew ==
    /\ mPc = "new"
    /\ \E enabled \in BOOLEAN, default \in ProviderNames \cup {<<>>, <<"p", 0>>},
          names \in SUBSET ProviderNames :
          \E providers \in [names -> {ProviderConfig(t, k) :
                                          t \in {"mcp", "firecrawl", "rest"},
                                          k \in {"", "key"}}] :
              mMgr' = NewManager(WebSearchConfig(enabled, default, providers))
    /\ mPc' = "ready"
    /\ UNCHANGED <<mInvoked, mResult>>
    /\ MgrFrame

\* One call of Manager.Search.
MgrSearch ==
    /\ mPc = "ready"
    /\ \E order \in Orders(DOMAIN mMgr.providers), ok \in BOOLEAN :
          LET out == ManagerSearch(mMgr, order, ok)
          IN  /\ mInvoked' = out.invoked
              /\ mResult' = [out EXCEPT !.invoked = ok]
    /\ mPc' = "done"
    /\ UNCHANGED mMgr
    /\ MgrFrame

MgrNext ==
    \/ MgrNew
    \/ MgrSearch

(***************************************************************************)
(* MCPProvider.parseResults.  A text is given by the JSON it spells: kind   *)
(* is "invalid" for text that is no JSON, else the type of the value; an   *)
(* array has its entries, a string has the text it holds.                  *)
(***************************************************************************)
JsonText(kind, entries, inner) == [kind |-> kind, entries |-> entries, inner |-> inner]

JsonArray(entries) == JsonText("array", entries, <<>>)
JsonString(text)   == JsonText("string", <<>>, <<text>>)

\* One entry of the array: an object with the fields of mcpSearchResult, or
\* (malformed) a value that does not decode into the struct.
mcpSearchResult(title, link, url, content) ==
    [malformed |-> FALSE, title |-> title, link |-> link, url |-> url,
     content |-> content, snippet |-> ""]

MalformedEntry == [mcpSearchResult("", "", "", "") EXCEPT !.malformed = TRUE]

\* json.Unmarshal into a []mcpSearchResult: null gives the nil slice, an
\* array of objects its entries, anything else an error.
UnmarshalResults(text) ==
    IF text.kind = "null" THEN [err |-> FALSE, raw |-> <<>>]
    ELSE IF text.kind = "array" /\ \A i \in DOMAIN text.entries : ~text.entries[i].malformed
         THEN [err |-> FALSE, raw |-> text.entries]
    ELSE [err |-> TRUE, raw |-> <<>>]

\* models.SearchProviderResult with the error parseResults returns beside it.
SearchProviderResult(err, query, results) ==
    [err |-> err, Query |-> query, Results |-> results]

\* Lines 391-404.
ConvertRawResults(query, raw) ==
    SearchProviderResult("", query,
        [i \in DOMAIN raw |->
            [Title |-> raw[i].title,
             URL |-> IF raw[i].link = "" THEN raw[i].url ELSE raw[i].link,
             Content |-> raw[i].content, Snippet |-> raw[i].snippet]])

\* Mutant of parseResults: a JSON string is not parsed a second time.
parseResultsSingleEncoding(query, text) ==
    IF text.kind = "invalid"
    THEN SearchProviderResult("failed to parse first JSON", "", <<>>)
    ELSE IF text.kind = "array" /\ ~UnmarshalResults(text).err
    THEN ConvertRawResults(query, UnmarshalResults(text).raw)
    ELSE SearchProviderResult("unexpected result type", "", <<>>)

\* Lines 359-417.
parseResults(query, text) ==
    IF text.kind = "invalid"
    THEN SearchProviderResult("failed to parse first JSON", "", <<>>)
    ELSE IF text.kind = "string"
    THEN LET second == UnmarshalResults(text.inner[1])
         IN  IF second.err
             THEN SearchProviderResult("failed to parse second JSON", "", <<>>)
             ELSE ConvertRawResults(query, second.raw)
    ELSE IF text.kind = "array"
    THEN LET converted == UnmarshalResults(JsonArray(text.entries))
         IN  IF converted.err
             THEN SearchProviderResult("failed to convert results", "", <<>>)
             ELSE ConvertRawResults(query, converted.raw)
    ELSE SearchProviderResult("unexpected result type", "", <<>>)

\* The result arrays and the texts of the model.
ResultArrays ==
    LET entries == { mcpSearchResult("A", "l1", "u1", "c1"),
                     mcpSearchResult("B", "", "u2", "c2"),
                     mcpSearchResult("C", "l3", "", ""),
                     mcpSearchResult("D", "", "", "c4"),
                     MalformedEntry }
    IN  UNION {[1..n -> entries] : n \in 0..MaxResults}

ContentTexts ==
    LET plain == {JsonText(k, <<>>, <<>>) :
                     k \in {"invalid", "null", "number", "bool", "object"}}
                 \cup {JsonArray(a) : a \in ResultArrays}
    IN  plain \cup {JsonString(t) : t \in plain}
              \cup {JsonString(JsonString(JsonArray(<<>>)))}

ParseFrame == UNCHANGED <<streamVars, orchVars, mcpVars, turnVars,
                          convVars, respVars, mgrVars, simVars, histVars>>

ParseInit ==
    /\ jPc = "new"
    /\ jText = JsonText("invalid", <<>>, <<>>)
    /\ jOut = SearchProviderResult("", "", <<>>)

\* Search has a result with a first content item.
ParseReceive ==
    /\ jPc = "new"
    /\ \E text \in ContentTexts : jText' = text
    /\ jPc' = "ready"
    /\ UNCHANGED jOut
    /\ ParseFrame

\* One call of parseResults.
ParseCall ==
    /\ jPc = "ready"
    /\ jOut' = parseResults("q", jText)
    /\ jPc' = "done"
    /\ UNCHANGED jText
    /\ ParseFrame

ParseNext ==
    \/ ParseReceive
    \/ ParseCall

(***************************************************************************)
(* simulateStreaming and ConvertResponseWithWebSearch.                     *)
(***************************************************************************)
\* The recorded searches a turn can hand over.
WebSearchCall(id, query, status) == [ID |-> id, Query |-> query, Status |-> status]

WebSearchCalls ==
    { WebSearchCall(<<"ws_1">>, "go", "completed"),
      WebSearchCall(<<"ws_2">>, "unknown", "failed"),
      WebSearchCall(<<"ws_3">>, "tla", "completed") }

\* The OutputItem of a web_search_call (lines 258-264).
WebSearchItem(call) ==
    [NoItem EXCEPT !.type = "web_search_call", !.id = call.ID, !.status = call.Status]

\* Lines 255-267.
BuildWebSearchOutputItems(wsCalls) == [i \in DOMAIN wsCalls |-> WebSearchItem(wsCalls[i])]

\* Lines 270-284.
ConvertResponseWithWebSearch(resp, requestID, wsCalls) ==
    LET response == ConvertResponse(resp, requestID)
    IN  [response EXCEPT !.Output = BuildWebSearchOutputItems(wsCalls) \o @]

\* One event sendSSE writes: its name, output_index (-1: none), item, the
\* query of a search item's action, delta, and the embedded response.
SimEvent(type, index, item, query, delta, response) ==
    [type |-> type, output_index |-> index, item |-> item, query |-> query,
     delta |-> delta, response |-> response]

\* Lines 347-406: the events between response.created and response.completed.
\* The search-call events.
SimSearchEvents(wsCalls) ==
    [i \in DOMAIN wsCalls |->
        SimEvent("response.output_item.added", i - 1, WebSearchItem(wsCalls[i]),
                 wsCalls[i].Query, <<>>, <<>>)]

\* The events of the first choice: the message item, its text, and the tool
\* wsCalls other than web_search.
SimMessageEvents(choices, contentIndex) ==
    IF Len(choices) = 0 THEN <<>>
    ELSE LET message == choices[1].message
             others == SelectSeq(message.tool_calls, LAMBDA tc : tc.name # "web_search")
         IN  <<SimEvent("response.output_item.added", contentIndex,
                        MessageItem("assistant", ""), "", <<>>, <<>>)>>
             \o (IF message.content # <<>>
                 THEN <<SimEvent("response.output_text.delta", contentIndex, NoItem, "",
                                 message.content, <<>>)>>
                 ELSE <<>>)
             \o [i \in DOMAIN others |->
                    SimEvent("response.output_item.added", contentIndex + 1,
                             [FunctionCallItem(FcID, others[i].id, "completed") EXCEPT
                                 !.name = others[i].name,
                                 !.arguments = others[i].arguments],
                             "", <<>>, <<>>)]

\* Mutant of simulateStreaming: the message events are written before the
\* search-call events.
simulateStreamingMessageFirst(flusher, resp, responseID, wsCalls) ==
    IF ~flusher THEN <<>>
    ELSE <<SimEvent("response.created", 0 - 1, NoItem, "", <<>>, <<>>)>>
         \o SimMessageEvents(resp.choices, Len(wsCalls))
         \o SimSearchEvents(wsCalls)
         \o <<SimEvent("response.completed", 0 - 1, NoItem, "", <<>>,
                       <<ConvertResponseWithWebSearch(resp, responseID, wsCalls)>>),
              SimEvent("done", 0 - 1, NoItem, "", <<>>, <<>>)>>

\* Lines 320-418: everything simulateStreaming writes.
simulateStreaming(flusher, resp, responseID, wsCalls) ==
    IF ~flusher THEN <<>>
    ELSE <<SimEvent("response.created", 0 - 1, NoItem, "", <<>>, <<>>)>>
         \o SimSearchEvents(wsCalls)
         \o SimMessageEvents(resp.choices, Len(wsCalls))
         \o <<SimEvent("response.completed", 0 - 1, NoItem, "", <<>>,
                       <<ConvertResponseWithWebSearch(resp, responseID, wsCalls)>>),
              SimEvent("done", 0 - 1, NoItem, "", <<>>, <<>>)>>

SimFrame == UNCHANGED <<streamVars, orchVars, mcpVars, turnVars,
                        convVars, respVars, mgrVars, parseVars, histVars>>

SimInit ==
    /\ zPc = "new"
    /\ zFlusher = TRUE
    /\ zResp = ChatCompletionResponse(<<>>, ChatUsage(0, 0, 0))
    /\ zCalls = <<>>
    /\ zEvents = <<>>

\* HandleWithWebSearch has returned the final response and the searches.
SimReceive ==
    /\ zPc = "new"
    /\ \E flusher \in BOOLEAN, choices \in ChoiceLists, n \in 0..MaxOutcomes :
          \E wsCalls \in [1..n -> WebSearchCalls] :
              /\ zFlusher' = flusher
              /\ zResp' = ChatCompletionResponse(choices, ChatUsage(1, 1, 2))
              /\ zCalls' = wsCalls
    /\ zPc' = "ready"
    /\ UNCHANGED zEvents
    /\ SimFrame

\* One call of simulateStreaming.
SimWrite ==
    /\ zPc = "ready"
    /\ zEvents' = simulateStreaming(zFlusher, zResp, "r1", zCalls)
    /\ zPc' = "done"
    /\ UNCHANGED <<zFlusher, zResp, zCalls>>
    /\ SimFrame

SimNext ==
    \/ SimReceive
    \/ SimWrite

(***************************************************************************)
(* The specifications: one per component, the others at rest.              *)
(***************************************************************************)
(***************************************************************************)
(* The conversation store (storage.go).  A stored value is the JSON text   *)
(* of the message list; texts here are strings.                            *)
(***************************************************************************)
\* encoding/json on a message's Content (an interface{}): nil is null, a
\* string a string, a []ChatContentPart an array of objects; the text key of
\* a part is left out when empty, its image_url object never.
MarshalContent(c) ==
    CASE c.kind = "nil"    -> [json |-> "null", text |-> "", items |-> <<>>]
      [] c.kind = "string" -> [json |-> "string", text |-> c.text, items |-> <<>>]
      [] c.kind = "parts"  ->
            [json |-> "array", text |-> "",
             items |-> [i \in DOMAIN c.parts |->
                           [type |-> c.parts[i].type, text |-> c.parts[i].text,
                            image_url |-> [url |-> c.parts[i].url]]]]
      [] OTHER             -> [json |-> "array", text |-> "", items |-> c.parts]

\* Decoding into the interface{}: an array comes back as []interface{} of
\* maps, never as []ChatContentPart.
UnmarshalContent(j) ==
    CASE j.json = "null"   -> NilContent
      [] j.json = "string" -> StringContent(j.text)
      [] OTHER             -> [kind |-> "interfaces", text |-> "", parts |-> j.items]

\* json.Marshal(messages) and json.Unmarshal(data, &messages).
MarshalMessages(msgs) ==
    [json |-> "array",
     items |-> [i \in DOMAIN msgs |->
                   [msgs[i] EXCEPT !.content = MarshalContent(msgs[i].content)]]]

UnmarshalMessages(data) ==
    [i \in DOMAIN data.items |->
        [data.items[i] EXCEPT !.content = UnmarshalContent(data.items[i].content)]]

\* The value b.Get returns for a key that is not in the bucket.
NoData == [json |-> "none", items |-> <<>>]

\* The response id "resp-<id>".
ResponseId(n) == <<"resp-", n>>

\* The keys of the bucket: the ids the handler hands out, and one it never does.
StoreIds == {ResponseId(n) : n \in 0..MaxTurns}

\* Store: the bucket after b.Put(responseID, data).
Store(b, responseID, msgs) == [b EXCEPT ![responseID] = MarshalMessages(msgs)]

\* Get: (messages, found).
Get(b, responseID) ==
    IF b[responseID] = NoData THEN [messages |-> <<>>, found |-> FALSE]
    ELSE LET msgs == UnmarshalMessages(b[responseID])
         IN  IF Len(msgs) = 0 THEN [messages |-> <<>>, found |-> FALSE]
             ELSE [messages |-> msgs, found |-> TRUE]

\* Delete: the bucket after b.Delete(responseID).
Delete(b, responseID) == [b EXCEPT ![responseID] = NoData]

\* The lists the store's callers hand over.
StoredLists ==
    { <<>>,
      <<ChatMessage("user", StringContent("Hello"), <<>>, "")>>,
      <<ChatMessage("user", PartsContent(<<ChatContentPart("text", "Look", ""),
                                           ChatContentPart("image_url", "", "u")>>),
                    <<>>, ""),
        ChatMessage("assistant", NilContent, <<ToolCall("c1", "f", "{}")>>, "")>> }

KvIds == {ResponseId(0), ResponseId(1)}

NoGot == [id |-> <<>>, messages |-> <<>>, found |-> FALSE, at |-> 0 - 1]

HistFrame == UNCHANGED <<streamVars, orchVars, mcpVars, turnVars, convVars,
                         respVars, mgrVars, parseVars, simVars>>

KvStore ==
    /\ Len(kvOps) < MaxOps
    /\ \E id \in KvIds, msgs \in StoredLists :
          /\ bucket' = Store(bucket, id, msgs)
          /\ kvOps' = Append(kvOps, [op |-> "Store", id |-> id, messages |-> msgs])
    /\ UNCHANGED <<kvGot, hPc, hReq, hTurns>>
    /\ HistFrame

KvDelete ==
    /\ Len(kvOps) < MaxOps
    /\ \E id \in KvIds :
          /\ bucket' = Delete(bucket, id)
          /\ kvOps' = Append(kvOps, [op |-> "Delete", id |-> id, messages |-> <<>>])
    /\ UNCHANGED <<kvGot, hPc, hReq, hTurns>>
    /\ HistFrame

KvGet ==
    /\ \E id \in KvIds :
          LET r == Get(bucket, id)
          IN  kvGot' = [id |-> id, messages |-> r.messages, found |-> r.found,
                        at |-> Len(kvOps)]
    /\ UNCHANGED <<bucket, kvOps, hPc, hReq, hTurns>>
    /\ HistFrame

KvNext ==
    \/ KvStore
    \/ KvDelete
    \/ KvGet

(***************************************************************************)
(* ProxyHandler's turns (part_000): handleResponses looks the history up,  *)
(* converts the request and sends it; handleStreamingResponse and          *)
(* handleNonStreamingResponse store the turn under its response id.        *)
(***************************************************************************)
\* What converter.HandleStreamingResponse returns: nil after a read error,
\* else the text and the tool calls it accumulated.
NilStreamResult == [nil |-> TRUE, OutputText |-> "", ToolCalls |-> <<>>]

StreamResults ==
    { NilStreamResult,
      [nil |-> FALSE, OutputText |-> "Hi", ToolCalls |-> <<>>],
      [nil |-> FALSE, OutputText |-> "",
       ToolCalls |-> <<[CallID |-> "c1", Name |-> "f", Arguments |-> "{}"]>>] }

\* The Back response's body: one io.ReadAll fails on, one json.Unmarshal
\* rejects, or a ChatCompletionResponse with its choices.
Body(kind, choices) == [kind |-> kind, choices |-> choices]

Bodies ==
    { Body("unreadable", <<>>), Body("invalid", <<>>), Body("json", <<>>),
      Body("json", <<[message |-> ChatMessage("assistant", NilContent,
                                              <<ToolCall("c1", "f", "{}")>>, "")],
                     [message |-> ChatMessage("assistant", StringContent("No"),
                                              <<>>, "")]>>) }

\* Mutant of streamingAssistantMessage: the tool calls are left out.
streamingAssistantMessageTextOnly(result) ==
    ChatMessage("assistant", StringContent(result.OutputText), <<>>, "")

\* Lines 372-392: the assistant message built from a stream's result.
streamingAssistantMessage(result) ==
    ChatMessage("assistant", StringContent(result.OutputText),
                [i \in DOMAIN result.ToolCalls |->
                    ToolCall(result.ToolCalls[i].CallID, result.ToolCalls[i].Name,
                             result.ToolCalls[i].Arguments)],
                "")

\* The Front requests of this handler: the input's items and the stream flag.
HistInputs ==
    { <<MessageInput("user", <<ContentItem("input_text", "Look", "", ""),
                               ContentItem("input_image", "", "u", "")>>)>>,
      <<>> }

HistShell(stream) ==
    [model |-> "gpt-4", tools |-> <<>>, stream |-> stream,
     temperature |-> "nil", max_tokens |-> 0]

NoTurn == [prev |-> <<>>, history |-> <<>>, found |-> FALSE, stream |-> FALSE,
           Messages |-> <<>>]

Turn(id, req, res, ok) ==
    [id |-> id, prev |-> req.prev, history |-> req.history, found |-> req.found,
     stream |-> req.stream, Messages |-> req.Messages, outcome |-> res, ok |-> ok]

HistInit ==
    /\ bucket = [id \in StoreIds |-> NoData]
    /\ kvOps = <<>>
    /\ kvGot = NoGot
    /\ hPc = "idle"
    /\ hReq = NoTurn
    /\ hTurns = <<>>

\* handleResponses, lines 253-271: the history of previous_response_id (none
\* when the id is empty or unknown) and the converted request.  The
\* conversion is the converter's, with the developer role left alone.
HistReceive ==
    /\ hPc = "idle"
    /\ Len(hTurns) < MaxTurns
    /\ \E prev \in {<<>>} \cup StoreIds, stream \in BOOLEAN, input \in HistInputs :
          LET got == IF prev # <<>> THEN Get(bucket, prev)
                     ELSE [messages |-> <<>>, found |-> FALSE]
              chatReq == ConvertRequest(ResponsesRequest(HistShell(stream), "", input),
                                        ModelMapping, got.messages, TRUE)
          IN  hReq' = [prev |-> prev, history |-> got.messages, found |-> got.found,
                       stream |-> stream, Messages |-> chatReq.Messages]
    /\ hPc' = "upstream"
    /\ UNCHANGED <<bucket, kvOps, kvGot, hTurns>>
    /\ HistFrame

\* Lines 300-346: the Back request fails or the Back answers with an error
\* status; the handler returns before a response id exists.
HistUpstreamFail ==
    /\ hPc = "upstream"
    /\ hPc' = "idle"
    /\ hReq' = NoTurn
    /\ UNCHANGED <<bucket, kvOps, kvGot, hTurns>>
    /\ HistFrame

\* handleStreamingResponse: nothing is stored when the translator returns nil.
HistStreaming ==
    /\ hPc = "upstream"
    /\ hReq.stream
    /\ \E result \in StreamResults :
          LET responseID == Len(hTurns) + 1
          IN  /\ bucket' = IF result.nil THEN bucket
                           ELSE Store(bucket, ResponseId(responseID),
                                      Append(hReq.Messages,
                                             streamingAssistantMessage(result)))
              /\ hTurns' = Append(hTurns, Turn(ResponseId(responseID), hReq,
                                               [stream |-> result, body |-> Body("", <<>>)],
                                               ~result.nil))
    /\ hPc' = "idle"
    /\ hReq' = NoTurn
    /\ UNCHANGED <<kvOps, kvGot>>
    /\ HistFrame

\* handleNonStreamingResponse: a body that cannot be read or decoded ends the
\* turn with a 500; else the first choice's message, if there is a choice, is
\* appended and the list stored under the converted response's ID.
HistNonStreaming ==
    /\ hPc = "upstream"
    /\ ~hReq.stream
    /\ \E body \in Bodies :
          LET responseID == Len(hTurns) + 1
              responsesResp == ConvertResponse(ChatCompletionResponse(<<>>, ChatUsage(0, 0, 0)),
                                               responseID)
              completeMessages == IF Len(body.choices) > 0
                                  THEN Append(hReq.Messages, body.choices[1].message)
                                  ELSE hReq.Messages
          IN  /\ bucket' = IF body.kind = "json"
                           THEN Store(bucket, responsesResp.ID, completeMessages)
                           ELSE bucket
              /\ hTurns' = Append(hTurns, Turn(ResponseId(responseID), hReq,
                                               [stream |-> NilStreamResult, body |-> body],
                                               body.kind = "json"))
    /\ hPc' = "idle"
    /\ hReq' = NoTurn
    /\ UNCHANGED <<kvOps, kvGot>>
    /\ HistFrame

HistNext ==
    \/ HistReceive
    \/ HistUpstreamFail
    \/ HistStreaming
    \/ HistNonStreaming

Init == StreamInit /\ OrchInit /\ McpInit /\ TurnInit /\ ConvInit /\ RespInit
        /\ MgrInit /\ ParseInit /\ SimInit /\ HistInit

SpecStream == Init /\ [][StreamNext]_vars
SpecOrch   == Init /\ [][OrchNext]_vars
SpecMcp    == Init /\ [][McpNext]_vars

SpecMcpTokens == Init /\ [][McpTokenNext]_vars

SpecTurn   == Init /\ [][TurnNext]_vars

SpecConv   == Init /\ [][ConvNext]_vars

SpecResp   == Init /\ [][RespNext]_vars

SpecMgr    == Init /\ [][MgrNext]_vars

SpecParse  == Init /\ [][ParseNext]_vars

SpecSim    == Init /\ [][SimNext]_vars

SpecStore  == Init /\ [][KvNext]_vars

SpecHist   == Init /\ [][HistNext]_vars

Next == StreamNext \/ OrchNext \/ McpNext \/ TurnNext \/ ConvNext \/ RespNext
        \/ MgrNext \/ ParseNext \/ SimNext \/ KvNext \/ HistNext

Spec == Init /\ [][Next]_vars

(***************************************************************************)
(* Properties of the stream translator (checked under SpecStream).         *)
(***************************************************************************)
IsProcessed(line) == HasData(line) /\ line.kind = "chunk" /\ Len(line.choices) > 0
IsSentinel(line)  == HasData(line) /\ line.kind = "done"

SentinelSeen == \E i \in DOMAIN sInput : IsSentinel(sInput[i])

\* The lines read before the sentinel (all of them when there is none).
RECURSIVE BeforeSentinel(_)
BeforeSentinel(lines) ==
    IF lines = <<>> \/ IsSentinel(Head(lines)) THEN <<>>
    ELSE <<Head(lines)>> \o BeforeSentinel(Tail(lines))

\* The tool-call deltas and the text deltas of the processed lines, in order.
RECURSIVE ToolDeltasOf(_)
ToolDeltasOf(lines) ==
    IF lines = <<>> THEN <<>>
    ELSE (IF IsProcessed(Head(lines)) THEN Head(lines).choices[1].tool_calls ELSE <<>>)
         \o ToolDeltasOf(Tail(lines))

RECURSIVE TextDeltasOf(_)
TextDeltasOf(lines) ==
    IF lines = <<>> THEN <<>>
    ELSE (IF IsProcessed(Head(lines)) /\ Head(lines).choices[1].content # <<>>
          THEN <<Head(lines).choices[1].content>> ELSE <<>>)
         \o TextDeltasOf(Tail(lines))

IsFcEvent(e, type) == e.type = type /\ e.item.type = "function_call"
FcAdded(e) == IsFcEvent(e, "response.output_item.added")
FcDone(e)  == IsFcEvent(e, "response.output_item.done")
ItemIds(evs) == [i \in DOMAIN evs |-> evs[i].item.id]

\* C2: every tool-call key owns exactly one function_call item: for each
\* provider call id, response.output_item.added is written at most once, the
\* later deltas with that id updating the item the first one allocated.
C2_OneItemPerCallId ==
    \A id \in {IdC1, IdSOH} :
        Cardinality({i \in DOMAIN events :
                        FcAdded(events[i]) /\ events[i].item.call_id = id}) <= 1

\* The stream carries one tool call in several chunks: the first with id and
\* name, the later ones with argument fragments only.
OneCallInFragments(tds) ==
    /\ Len(tds) >= 2
    /\ tds[1].id # <<>> /\ tds[1].name # ""
    /\ \A i \in 2..Len(tds) :
          tds[i].id = <<>> /\ tds[i].name = "" /\ tds[i].arguments # <<>>

\* C3: for one tool call whose argument fragments arrive in several chunks,
\* the item's arguments at the end of the stream are the concatenation of all
\* its fragments in arrival order.
C3_FragmentsConcatenate ==
    LET tds == ToolDeltasOf(sInput)
    IN  (sPc = "returned" /\ OneCallInFragments(tds)) =>
            \E i \in DOMAIN sResult.ToolCalls :
                /\ sResult.ToolCalls[i].call_id = tds[1].id
                /\ sResult.ToolCalls[i].arguments =
                       Concat([k \in DOMAIN tds |-> tds[k].arguments])

\* The last k+2 events are one done event per open tool-call item, the
\* message's done event with the whole text, and response.completed.
ClosingEvents ==
    LET n == Len(events)
        k == Cardinality(DOMAIN toolCalls)
    IN  /\ n >= k + 2
        /\ events[n] = CompletedEvent
        /\ events[n - 1] =
              DoneEvent([MessageItem("assistant", "completed") EXCEPT
                            !.hasContent = TRUE, !.text = outputText])
        /\ \A i \in (n - 1 - k)..(n - 2) : FcDone(events[i])
        /\ {events[i].item : i \in (n - 1 - k)..(n - 2)} = Range(toolCalls)
        /\ \A i \in 1..(n - 2 - k) :
              events[i].type # "response.output_item.done"

\* C4: on [DONE] the translator writes one item-done event per open tool-call
\* item, then the message's item-done event with the full text, then
\* response.completed, and stops: the sentinel is the last line processed and
\* response.completed is the last event, written only for the sentinel.
C4_SentinelClosesStream ==
    /\ SentinelSeen =>
          /\ sPc = "returned"
          /\ IsSentinel(sInput[Len(sInput)])
          /\ ClosingEvents
    /\ \A i \in DOMAIN events :
          events[i] = CompletedEvent => (i = Len(events) /\ SentinelSeen)

C4_Witness ==
    /\ SentinelSeen
    /\ Cardinality(DOMAIN toolCalls) >= 2
    /\ outputText # <<>>

\* C5: the item-done events of the tool calls open at [DONE] are written in the
\* order in which the tool calls were discovered, i.e. in the order of their
\* item-added events.
C5_DoneInDiscoveryOrder ==
    SentinelSeen =>
        ItemIds(SelectSeq(events, FcDone)) = ItemIds(SelectSeq(events, FcAdded))

\* The stream is k >= 1 text deltas followed by [DONE].
TextOnlyStream ==
    /\ Len(sInput) >= 2
    /\ IsSentinel(sInput[Len(sInput)])
    /\ \A i \in 1..(Len(sInput) - 1) :
          /\ IsProcessed(sInput[i])
          /\ sInput[i].choices[1].content # <<>>
          /\ sInput[i].choices[1].tool_calls = <<>>

TextOnlyEvents(ds) ==
    <<AddedEvent(MessageItem("assistant", "in_progress"))>>
    \o [i \in DOMAIN ds |-> TextDeltaEvent(ds[i])]
    \o <<DoneEvent([MessageItem("assistant", "completed") EXCEPT
                       !.hasContent = TRUE, !.text = Concat(ds)])>>
    \o <<CompletedEvent>>

\* C6, as claimed: for k >= 1 text deltas followed by [DONE] the events written
\* are exactly item-added(message), one text delta per chunk in order,
\* item-done(message, the concatenated text), completed.
C6_TextEventsExactly ==
    TextOnlyStream => events = TextOnlyEvents(TextDeltasOf(sInput))

\* C6, amended: the events written are exactly response.created followed by
\* that sequence.
C6_TextEventsAfterCreated ==
    TextOnlyStream => events = <<CreatedEvent>> \o TextOnlyEvents(TextDeltasOf(sInput))

C6_Witness ==
    /\ TextOnlyStream
    /\ Len(sInput) = 3
    /\ outputText = <<"H", "i">>

\* The chunked form of a Back response: text deltas, and each tool call as a
\* chunk with its id and name followed by chunks with argument fragments, the
\* ids distinct; then [DONE].
IsCallStart(tc)    == tc.id # <<>> /\ tc.name # ""
IsCallFragment(tc) == tc.id = <<>> /\ tc.name = "" /\ tc.arguments # <<>>

ChunkedForm(lines) ==
    LET tds == ToolDeltasOf(BeforeSentinel(lines))
    IN  /\ lines # <<>> /\ IsSentinel(lines[Len(lines)])
        /\ \A i \in 1..(Len(lines) - 1) : IsProcessed(lines[i])
        /\ \A i \in DOMAIN tds : IsCallStart(tds[i]) \/ IsCallFragment(tds[i])
        /\ tds # <<>> => IsCallStart(tds[1])
        /\ \A i, j \in DOMAIN tds :
              (IsCallStart(tds[i]) /\ IsCallStart(tds[j]) /\ tds[i].id = tds[j].id)
                  => i = j

\* The tool calls a chunked form carries: a fragment belongs to the call
\* started last.
RECURSIVE AssembleCalls(_, _)
AssembleCalls(acc, tds) ==
    IF tds = <<>> THEN acc
    ELSE LET tc == Head(tds)
             n  == Len(acc)
         IN  AssembleCalls(
                 IF IsCallStart(tc) \/ n = 0 THEN Append(acc, tc)
                 ELSE [acc EXCEPT ![n].arguments = @ \o tc.arguments],
                 Tail(tds))

\* The non-streaming Back response with the same data.
BackResponseOf(lines) ==
    <<[message |-> ChatMessage("assistant",
                               Concat(TextDeltasOf(BeforeSentinel(lines))),
                               AssembleCalls(<<>>, ToolDeltasOf(BeforeSentinel(lines))),
                               <<>>)]>>

NameArgs(items) ==
    {<<items[i].name, items[i].arguments>> :
        i \in {j \in DOMAIN items : items[j].type = "function_call"}}

\* C7: the chunked form of a Back response gives a StreamResult with the text
\* and the set of tool-call name/arguments pairs that ConvertResponse gives
\* for the response itself.
C7_RoundTrip ==
    (sPc = "returned" /\ ChunkedForm(sInput)) =>
        LET output == ConvertResponseOutput(BackResponseOf(sInput))
        IN  /\ sResult.OutputText = output[Len(output)].text
            /\ NameArgs(sResult.ToolCalls) = NameArgs(output)

(***************************************************************************)
(* Properties of the orchestrator (checked under SpecOrch).                *)
(***************************************************************************)
HasSearchCall(ans) ==
    /\ ans.err = ""
    /\ Len(ans.choices) > 0
    /\ extractWebSearchCalls(ans.choices[1].message.tool_calls) # <<>>

\* Every upstream call so far succeeded and answered with a web_search call.
AlwaysSearching == \A i \in DOMAIN upstream : HasSearchCall(upstream[i].ans)

\* C1: when every upstream response carries a web_search call and no upstream
\* call fails, HandleWithWebSearch returns after exactly 6 upstream calls, and
\* it returns the sixth response with a nil error, whatever the searches gave.
C1_SixUpstreamCalls ==
    AlwaysSearching =>
        /\ Len(upstream) <= 6
        /\ (oPc = "returned") <=> (Len(upstream) = 6)
        /\ oPc = "returned" => (oResp = upstream[6].ans /\ ~oErr)

C1_Witness ==
    /\ AlwaysSearching
    /\ oPc = "returned"
    /\ Len(upstream) = 6
    /\ \E i, j \in DOMAIN searches : searches[i].found /\ ~searches[j].found

\* What HandleStreamingResponse returns for the lines read so far when the
\* stream completes or its body simply ends: the results its caller takes for
\* those of a stream that did not fail.
UnfailedResults ==
    {StreamResult(outputText, toolCalls, o) : o \in Orders(DOMAIN toolCalls)}

\* C15: when reading the upstream stream fails before the sentinel, the
\* translator stops without writing response.completed and reports the
\* failure to its caller: what it returns is not what it returns for a stream
\* that did not fail.
C15_ReadErrorReported ==
    (sPc = "returned" /\ sReadErr) =>
        /\ \A i \in DOMAIN events : events[i] # CompletedEvent
        /\ sResult \notin UnfailedResults

\* A line the loop passes over: no data marker, or a payload that is no
\* decodable chunk.
IsPassedOver(line) ==
    \/ line.marker \notin {"data: ", "data:"}
    \/ line.kind = "bad"

\* The state the loop reaches from st by reading the lines, the passed-over
\* ones left out; st is [text, tcs, ctr, added, evs].
RECURSIVE Replay(_, _)
Replay(st, lines) ==
    IF lines = <<>> \/ st.done THEN st
    ELSE LET line == Head(lines)
         IN  IF IsPassedOver(line) \/ (line.kind = "chunk" /\ line.choices = <<>>)
             THEN Replay(st, Tail(lines))
             ELSE IF line.kind = "done"
             THEN [st EXCEPT !.done = TRUE]
             ELSE LET delta == line.choices[1]
                      t == ApplyToolDeltas(
                               [tcs |-> st.tcs, ctr |-> st.ctr,
                                evs |-> st.evs \o TextEvents(st.added, delta.content)],
                               delta.tool_calls)
                  IN  Replay([text |-> st.text \o delta.content, tcs |-> t.tcs,
                              ctr |-> t.ctr, evs |-> t.evs,
                              added |-> (st.added \/ delta.content # <<>>),
                              done |-> FALSE],
                             Tail(lines))

WithoutPassedOver(lines) == SelectSeq(lines, LAMBDA line : ~IsPassedOver(line))

Replayed(lines) ==
    Replay([text |-> <<>>, tcs |-> <<>>, ctr |-> 0, evs |-> <<CreatedEvent>>,
            added |-> FALSE, done |-> FALSE], lines)

\* C16: a line without the data marker, or a data line whose payload is no
\* decodable chunk, writes no event and leaves the stream state unchanged:
\* the state is the one the same lines without the passed-over ones give.
C16_PassedOverLinesAbsent ==
    (sPc = "reading" /\ \A i \in DOMAIN sInput : ~IsSentinel(sInput[i])) =>
        LET st == Replayed(WithoutPassedOver(sInput))
        IN  /\ outputText = st.text
            /\ toolCalls = st.tcs
            /\ currentToolID = st.ctr
            /\ messageItemAdded = st.added
            /\ events = st.evs

C16_Witness ==
    /\ sPc = "reading"
    /\ Len(sInput) = 4
    /\ sInput[1].marker = "data: " /\ sInput[1].kind = "chunk" /\ sInput[1].choices # <<>>
    /\ sInput[2].marker = ""
    /\ sInput[3].kind = "bad"
    /\ sInput[4].kind = "chunk" /\ sInput[4].choices # <<>>
    /\ sInput[4].choices[1].tool_calls # <<>>

\* The web_search calls of the rounds run so far, in order: round i worked on
\* the answer to the i-th upstream call.
Executed ==
    Concat([i \in 1..oIter |->
               extractWebSearchCalls(upstream[i].ans.choices[1].message.tool_calls)])

ToolMessages == SelectSeq(messages, LAMBDA msg : msg.role = "tool")

\* HandleWithWebSearch returns an error only for a failed upstream call.
ErrorOnlyFromUpstream ==
    oErr => (upstream # <<>> /\ upstream[Len(upstream)].ans.err # "")

\* C12: a web_search call whose arguments are not valid JSON does not abort
\* the turn: its query is "unknown", the search is executed with that query,
\* and its recorded status is failed exactly when that search returned an
\* error.
C12_BadArgumentsStillSearched ==
    /\ Len(searches) = Len(Executed)
    /\ Len(webSearchCalls) = Len(Executed)
    /\ ErrorOnlyFromUpstream
    /\ \A k \in DOMAIN Executed :
          Executed[k].arguments.json = "invalid" =>
             /\ searches[k].query = "unknown"
             /\ webSearchCalls[k].ID = Executed[k].id
             /\ webSearchCalls[k].Query = "unknown"
             /\ webSearchCalls[k].Status = "failed" <=> ~searches[k].found
             /\ webSearchCalls[k].Status = "completed" <=> searches[k].found

C12_Witness ==
    /\ oPc = "returned" /\ ~oErr
    /\ \E k \in DOMAIN Executed :
          /\ Executed[k].arguments.json = "invalid"
          /\ searches[k].found
          /\ webSearchCalls[k].Status = "completed"

\* C13: a failed search returns no error from the orchestrator: the call is
\* recorded as failed, a tool message with the error text is appended for it,
\* the remaining calls of the round are executed and the next upstream call
\* is made with all tool messages.
C13_FailedSearchContinues ==
    /\ ErrorOnlyFromUpstream
    /\ Len(ToolMessages) = Len(Executed)
    /\ Len(searches) = Len(Executed)
    /\ \A k \in DOMAIN Executed :
          ~searches[k].found =>
             /\ webSearchCalls[k].Status = "failed"
             /\ ToolMessages[k].tool_call_id = Executed[k].id
             /\ ToolMessages[k].content = <<"Search failed: ", "error">>
    /\ oPc = "returned" =>
          /\ Len(upstream) = oIter + 1
          /\ upstream[Len(upstream)].req.messages = messages

C13_Witness ==
    /\ oPc = "returned" /\ ~oErr
    /\ \E k, j \in DOMAIN Executed :
          k < j /\ ~searches[k].found /\ searches[j].found

\* C14: when an upstream call fails (in a loop iteration or the final call),
\* HandleWithWebSearch returns an error and no response, and that call is the
\* last thing it did: no upstream call and no search follows it.
C14_UpstreamFailureAborts ==
    \A i \in DOMAIN upstream :
        upstream[i].ans.err # "" =>
            /\ i = Len(upstream)
            /\ oPc = "returned"
            /\ oErr
            /\ oResp.err = "nil"
            /\ oIter = i - 1
            /\ Len(searches) = Len(Executed)

C14_Witness ==
    /\ oPc = "returned" /\ oErr
    /\ Len(upstream) = maxIterations + 1
    /\ \E k \in DOMAIN searches : searches[k].found

(***************************************************************************)
(* Properties of the session-RPC client (checked under SpecMcp), stated of *)
(* the observed Search call while the other callers run beside it.         *)
(***************************************************************************)
Returned == outcome # "none"

First401 == Len(calls) >= 1 /\ calls[1].hasError /\ calls[1].code = 0 - 401

\* C8: when the first tools/call answer is an error envelope with code -401,
\* Search clears the cached token, a new initialize handshake takes place
\* before the request is sent again, tools/call is issued once more (unless
\* that handshake fails), and Search returns the retry's result: results if
\* the retry succeeds, an error only if it fails.
C8_RetryAfter401 ==
    First401 =>
        /\ Len(calls) <= 2
        /\ Len(calls) = 1 =>
              \/ attempt[Observed] = 0 /\ pc[Observed] \in {"clear_lock", "clear_write"}
              \/ attempt[Observed] = 1
        /\ (attempt[Observed] = 1 /\ ~fresh) => sessionID = 0
        /\ (attempt[Observed] = 1 /\ pc[Observed] \in {"send", "attach", "exchange"})
              => fresh
        /\ Returned =>
              /\ attempt[Observed] >= 1
              /\ outcome = "err_session" \/ Len(calls) = 2
              /\ (outcome = "ok") <=> (Len(calls) = 2 /\ Decide(calls[2]) = "ok")

C8_Witness ==
    /\ First401
    /\ outcome = "ok"
    /\ inits = 2

\* C9, as claimed: every error envelope with a negative code is taken for an
\* expired session: the token is cleared and the sequence retried.
C9_NegativeCodeRetried ==
    (Returned /\ Len(calls) >= 1 /\ calls[1].hasError /\ calls[1].code < 0)
        => attempt[Observed] >= 1

\* C9, amended: an error envelope is taken for an expired session exactly when
\* its code is -401 or its message contains "apikey": then the token is
\* cleared and the handshake-plus-invoke sequence is retried once; an envelope
\* with another code, negative or not, is returned as an error at once, the
\* token left alone.
C9_AuthEnvelopeRetried ==
    (Returned /\ Len(calls) >= 1 /\ calls[1].hasError) =>
        IF calls[1].code = 0 - 401 \/ calls[1].apikey
        THEN /\ attempt[Observed] >= 1
             /\ outcome = "err_session" \/ Len(calls) = 2
        ELSE /\ attempt[Observed] = 0
             /\ Len(calls) = 1
             /\ outcome = "err_tool"

C9_Witness ==
    /\ Len(calls) = 2
    /\ calls[1] = ErrEnvelope(0 - 32000, TRUE)
    /\ outcome = "ok"

\* A caller is about to read or write p.sessionID.
AtTokenAccess(p) ==
    pc[p] \in {"ensure_check", "handshake", "clear_write", "send", "attach"}

\* C10: every access to the cached token happens with the mutex held.
C10_TokenAccessUnderLock ==
    \A p \in Callers : AtTokenAccess(p) => sessionMutex = p

(***************************************************************************)
(* Properties of a turn's outbound calls (checked under SpecTurn).         *)
(***************************************************************************)
\* C11: once the inbound caller's context is cancelled no outbound request of
\* the turn keeps running: neither the upstream call nor a search provider's
\* request (initialize, tools/call, REST search).
C11_CancelStopsOutbound ==
    tCtxDone => ~tInflight.live

\* No initialize response has carried a session header, and the latest one
\* to the observed Search came without it.
HandshakeWithoutToken == tokens = 0 /\ lastShake = "notoken"

\* C29: after an initialize response without a session header ensureSession
\* returns no error, the tools/call that follows carries no session header,
\* and Search returns the results of a tools/call answered with results.
C29_NoTokenProceeds ==
    HandshakeWithoutToken =>
        /\ outcome # "err_session"
        /\ pc[Observed] = "exchange" => attach[Observed] = NoHeader
        /\ (pc[Observed] = "done" /\ calls # <<>>
               /\ calls[Len(calls)] = ResultEnvelope(FALSE, <<"results">>))
              => outcome = "ok"

C29_Witness ==
    /\ HandshakeWithoutToken
    /\ pc[Observed] = "done"
    /\ inits = 1
    /\ Len(calls) = 1
    /\ calls[1] = ResultEnvelope(FALSE, <<"results">>)
    /\ outcome = "ok"

(***************************************************************************)
(* Properties of ConvertRequest (checked under SpecConv).                  *)
(***************************************************************************)
\* An input item that yields a message: one of the three item types, and a
\* message item has a role.
WellFormed(item) ==
    /\ item.type \in {"message", "function_call", "function_call_output"}
    /\ item.type = "message" => item.role # ""

WellFormedInput == SelectSeq(cReq.input, WellFormed)

\* msg is the translation of the well-formed item.
TranslationOf(msg, item) ==
    IF item.type = "message"
    THEN /\ msg.role = (IF item.role = "developer" /\ ~cDev THEN "user" ELSE item.role)
         /\ msg.tool_calls = <<>>
         /\ msg.tool_call_id = ""
         /\ msg.content.kind = "string" =>
               \E i \in DOMAIN item.content :
                   item.content[i].type = "input_text" /\ item.content[i].text = msg.content.text
         /\ msg.content.kind = "parts" => Len(item.content) > 1
    ELSE IF item.type = "function_call"
    THEN /\ msg.role = "assistant"
         /\ msg.tool_calls = <<[id |-> item.call_id, name |-> item.name,
                                arguments |-> item.arguments]>>
    ELSE /\ msg.role = "tool"
         /\ msg.tool_call_id = item.call_id
         /\ msg.content = [kind |-> "string", text |-> item.output, parts |-> <<>>]

\* msgs are the translations of the well-formed input items, in their order.
IsTranslatedInput(msgs) ==
    /\ Len(msgs) = Len(WellFormedInput)
    /\ \A i \in DOMAIN msgs : TranslationOf(msgs[i], WellFormedInput[i])

IsInstructionsMessage(msg) ==
    /\ msg.role = "system"
    /\ msg.content = [kind |-> "string", text |-> cReq.instructions, parts |-> <<>>]
    /\ msg.tool_calls = <<>>

HistoryHasSystem == \E i \in DOMAIN cHistory : cHistory[i].role = "system"

InputHasSystem ==
    \E i \in DOMAIN cReq.input :
        cReq.input[i].type = "message" /\ cReq.input[i].role = "system"

\* The messages a call put in front of the history and the translated input.
Inserted(out) == Len(out.Messages) - Len(cHistory) - Len(WellFormedInput)

\* C17: with no history and no instructions the translated list has one
\* message per well-formed input item, in the order of the input items.
C17_InputOrderKept ==
    (cPc = "ready" /\ cHistory = <<>> /\ cReq.instructions = "") =>
        \A k \in DOMAIN cOut : IsTranslatedInput(cOut[k].Messages)

C17_Witness ==
    /\ cHistory = <<>> /\ cReq.instructions = ""
    /\ Len(cOut) >= 1
    /\ Len(cReq.input) = 2
    /\ cReq.input[1].type = "function_call_output"
    /\ cReq.input[2].type = "message" /\ cReq.input[2].role = "user"
    /\ Len(cOut[1].Messages) = 2

\* C18: with instructions and no system message in the history, the result
\* has the instructions' system message at position 0, inserted once, and a
\* second call on the same input gives the same list.
C18_InstructionsOnceInFront ==
    (cPc = "ready" /\ cReq.instructions # "" /\ ~HistoryHasSystem) =>
        /\ \A k \in DOMAIN cOut :
              /\ IsInstructionsMessage(cOut[k].Messages[1])
              /\ Inserted(cOut[k]) = 1
              /\ SubSeq(cOut[k].Messages, 2, 1 + Len(cHistory)) = cHistory
        /\ \A j, k \in DOMAIN cOut : cOut[j].Messages = cOut[k].Messages

C18_Witness ==
    /\ cReq.instructions # "" /\ ~HistoryHasSystem
    /\ Len(cHistory) = 2
    /\ Len(WellFormedInput) >= 1
    /\ Len(cOut) = 2

\* C19, as claimed: the instructions message is added only if neither a
\* history message nor a translated input item has role system.
C19_NoSystemAnywhere ==
    \A k \in DOMAIN cOut :
        Inserted(cOut[k]) = 1 => (~HistoryHasSystem /\ ~InputHasSystem)

\* C19, amended: the instructions message is added exactly when the
\* instructions are non-empty and no history message has role system; the
\* input items are not consulted.
C19_NoSystemInHistory ==
    \A k \in DOMAIN cOut :
        /\ Inserted(cOut[k]) \in {0, 1}
        /\ Inserted(cOut[k]) = 1 <=> (cReq.instructions # "" /\ ~HistoryHasSystem)
        /\ Inserted(cOut[k]) = 1 => IsInstructionsMessage(cOut[k].Messages[1])

C19_Witness ==
    /\ Len(cOut) >= 1
    /\ cReq.instructions # ""
    /\ InputHasSystem /\ ~HistoryHasSystem
    /\ Inserted(cOut[1]) = 1

\* The history, verbatim, sits before the translated input and behind at most
\* the instructions message.
HistoryThenInput(out) ==
    LET n == Inserted(out)
    IN  /\ n \in {0, 1}
        /\ n = 1 => IsInstructionsMessage(out.Messages[1])
        /\ SubSeq(out.Messages, n + 1, n + Len(cHistory)) = cHistory
        /\ IsTranslatedInput(SubSeq(out.Messages, n + Len(cHistory) + 1,
                                    Len(out.Messages)))

\* C20: the history messages appear verbatim and in order before all
\* translated input items, preceded only by the optional instructions
\* message, and a call leaves the caller's history list as it was.
C20_HistoryVerbatimFirst ==
    /\ [](\A k \in DOMAIN cOut : HistoryThenInput(cOut[k]))
    /\ [][cPc = "ready" => cHistory' = cHistory]_vars

C20_Witness ==
    /\ Len(cOut) >= 1
    /\ Len(cHistory) = 2
    /\ cReq.instructions # ""
    /\ Len(WellFormedInput) = 2

\* The translated input items of a call, behind the instructions message and
\* the history.
InputMessages(out) ==
    SubSeq(out.Messages, Inserted(out) + Len(cHistory) + 1, Len(out.Messages))

\* The role a message item's translation has to carry.
RoleFor(item) ==
    IF item.role = "developer" THEN (IF cDev THEN "developer" ELSE "user")
    ELSE item.role

C22_DeveloperBecomesSystem ==
    \A k \in DOMAIN cOut :
        \A i \in DOMAIN WellFormedInput :
            (WellFormedInput[i].type = "message" /\ WellFormedInput[i].role = "developer")
                => InputMessages(cOut[k])[i].role = "system"

\* What one tool declaration contributes to the translated tools.
ToolsFor(tool) ==
    IF tool.type = "function" /\ tool.name # "" THEN <<tool>>
    ELSE IF tool.type = "web_search"
         THEN <<[type |-> "function", name |-> "web_search",
                 parameters |-> [type |-> "object",
                                 properties |-> {[name |-> "query", type |-> "string"]},
                                 required |-> <<"query">>]]>>
    ELSE <<>>

C24_FunctionToolsOnly ==
    \A k \in DOMAIN cOut :
        cOut[k].Tools = SelectSeq(cReq.tools,
                                  LAMBDA t : t.type = "function" /\ t.name # "")

(***************************************************************************)
(* Properties of ConvertResponse (checked under SpecResp).                 *)
(***************************************************************************)
\* The message of the first choice.
FirstMessage == rResp.choices[1].message

\* item is the function_call item of the tool call tc.
IsCallItemOf(item, tc) ==
    /\ item.type = "function_call"
    /\ item.status = "completed"
    /\ item.call_id = tc.id
    /\ item.name = tc.name
    /\ item.arguments = tc.arguments

\* C25: for a response with at least one choice the output list holds one
\* completed function_call item per tool call of the first choice, in the
\* order of the tool calls, then exactly one message item, the last element,
\* whose content is the text as a single part when the text is non-empty and
\* is absent otherwise.
C25_OutputListShape ==
    (rPc = "done" /\ Len(rResp.choices) > 0) =>
        LET n == Len(FirstMessage.tool_calls)
        IN  /\ Len(rOut.Output) = n + 1
            /\ \A i \in 1..n : IsCallItemOf(rOut.Output[i], FirstMessage.tool_calls[i])
            /\ rOut.Output[n + 1].type = "message"
            /\ rOut.Output[n + 1].hasContent = (FirstMessage.content # <<>>)
            /\ rOut.Output[n + 1].text = FirstMessage.content

C25_Witness ==
    /\ rPc = "done"
    /\ Len(rResp.choices) = 1
    /\ Len(FirstMessage.tool_calls) = 2
    /\ FirstMessage.content # <<>>
    /\ Len(rOut.Output) = 3
    /\ rOut.Output[1].call_id = FirstMessage.tool_calls[1].id
    /\ rOut.Output[3].hasContent

\* C26: for every response the result's input_tokens, output_tokens and
\* total_tokens are the response's prompt_tokens, completion_tokens and
\* total_tokens.
C26_UsageCopied ==
    rPc = "done" =>
        /\ rOut.Usage.input_tokens = rResp.usage.prompt_tokens
        /\ rOut.Usage.output_tokens = rResp.usage.completion_tokens
        /\ rOut.Usage.total_tokens = rResp.usage.total_tokens

(***************************************************************************)
(* Properties of search.Manager (checked under SpecMgr).                   *)
(***************************************************************************)
\* The registered providers that are usable.
Usable == {n \in DOMAIN mMgr.providers : mMgr.providers[n].apiKey # ""}

DefaultUsable == mMgr.defaultProvider \in Usable

\* Manager.Search returned the result, success or error, of the provider n,
\* the only provider it invoked.
ReturnedFrom(n) ==
    /\ mInvoked = <<n>>
    /\ mResult.from = n
    /\ mResult.err = (IF mResult.invoked THEN "" ELSE "provider")

\* C27: a disabled manager fails without invoking a provider; an enabled one
\* invokes the default provider alone and returns its result when that
\* provider is registered and usable; otherwise it invokes exactly one other
\* usable provider; it fails with 'no available search provider' only when no
\* registered provider is usable.
C27_ProviderSelection ==
    mPc = "done" =>
        /\ ~mMgr.enabled =>
              (mInvoked = <<>> /\ mResult.err = "web search is disabled")
        /\ (mMgr.enabled /\ DefaultUsable) => ReturnedFrom(mMgr.defaultProvider)
        /\ (mMgr.enabled /\ ~DefaultUsable /\ Usable # {}) =>
              \E n \in Usable \ {mMgr.defaultProvider} : ReturnedFrom(n)
        /\ mResult.err = "no available search provider" <=>
              (mMgr.enabled /\ Usable = {})
        /\ mResult.err = "no available search provider" => mInvoked = <<>>

C27_Witness ==
    /\ mPc = "done"
    /\ mMgr.enabled
    /\ Cardinality(Usable) = 3
    /\ mMgr.defaultProvider = <<"p", 2>>
    /\ mInvoked = <<<<"p", 2>>>>
    /\ mResult.err = "provider"

(***************************************************************************)
(* Properties of parseResults (checked under SpecParse).                   *)
(***************************************************************************)
\* The text is a JSON array of result objects, or a JSON string that holds
\* such an array; TheArray is that array.
IsResultArray(text) ==
    text.kind = "array" /\ \A i \in DOMAIN text.entries : ~text.entries[i].malformed

SingleEncoded == IsResultArray(jText)
DoubleEncoded == jText.kind = "string" /\ IsResultArray(jText.inner[1])

TheArray == IF SingleEncoded THEN jText.entries ELSE jText.inner[1].entries

\* C28: the result list is the same for an array of results and for a string
\* that holds that array: one result per entry, in order, whose url is the
\* entry's link when non-empty and its url otherwise; invalid JSON and JSON
\* of another type give an error and no result.
C28_ResultDecoding ==
    jPc = "done" =>
        /\ (SingleEncoded \/ DoubleEncoded) =>
              /\ jOut.err = ""
              /\ Len(jOut.Results) = Len(TheArray)
              /\ \A i \in DOMAIN TheArray :
                    /\ jOut.Results[i].Title = TheArray[i].title
                    /\ jOut.Results[i].Content = TheArray[i].content
                    /\ TheArray[i].link # "" => jOut.Results[i].URL = TheArray[i].link
                    /\ TheArray[i].link = "" => jOut.Results[i].URL = TheArray[i].url
        /\ jText.kind \notin {"array", "string"} =>
              (jOut.err # "" /\ jOut.Results = <<>>)

C28_Witness ==
    /\ jPc = "done"
    /\ DoubleEncoded
    /\ Len(TheArray) = 2
    /\ TheArray[1].link # "" /\ TheArray[1].url # ""
    /\ TheArray[2].link = "" /\ TheArray[2].url # ""
    /\ jOut.Results[1].URL = TheArray[1].link
    /\ jOut.Results[2].URL = TheArray[2].url

(***************************************************************************)
(* Properties of simulateStreaming (checked under SpecSim).                *)
(***************************************************************************)
\* The positions of the events of a kind.
SearchAdded ==
    {k \in DOMAIN zEvents : /\ zEvents[k].type = "response.output_item.added"
                            /\ zEvents[k].item.type = "web_search_call"}

MessageAdded ==
    {k \in DOMAIN zEvents : /\ zEvents[k].type = "response.output_item.added"
                            /\ zEvents[k].item.type = "message"}

TextDeltas == {k \in DOMAIN zEvents : zEvents[k].type = "response.output_text.delta"}

ItemEvents ==
    {k \in DOMAIN zEvents :
        zEvents[k].type \in {"response.output_item.added", "response.output_text.delta"}}

Completed == {k \in DOMAIN zEvents : zEvents[k].type = "response.completed"}

\* The output list of the response embedded in the event at k.
EmbeddedOutput(k) == zEvents[k].response[1].Output

\* C30: response.created is first; then one search-call added event per
\* recorded search, in their order, with output_index 0..n-1; the message's
\* added event and its text delta come only after all of them;
\* response.completed comes after every item event, and the response in it
\* lists the search-call items before the function_call and message items.
C30_SimulatedOrder ==
    (zPc = "done" /\ zFlusher) =>
        LET n == Len(zCalls)
        IN  /\ zEvents[1].type = "response.created"
            /\ SearchAdded = 2..(n + 1)
            /\ \A i \in 1..n :
                  /\ zEvents[i + 1].item.id = zCalls[i].ID
                  /\ zEvents[i + 1].item.status = zCalls[i].Status
                  /\ zEvents[i + 1].query = zCalls[i].Query
                  /\ zEvents[i + 1].output_index = i - 1
            /\ \A k \in MessageAdded \cup TextDeltas : k > n + 1
            /\ \A k \in TextDeltas : \E m \in MessageAdded : m < k
            /\ Cardinality(Completed) = 1
            /\ \A c \in Completed :
                  /\ \A k \in ItemEvents : k < c
                  /\ Len(EmbeddedOutput(c)) >= n
                  /\ \A i \in DOMAIN EmbeddedOutput(c) :
                        IF i <= n
                        THEN /\ EmbeddedOutput(c)[i].type = "web_search_call"
                             /\ EmbeddedOutput(c)[i].id = zCalls[i].ID
                        ELSE EmbeddedOutput(c)[i].type \in {"function_call", "message"}

C30_Witness ==
    /\ zPc = "done" /\ zFlusher
    /\ Len(zCalls) = 2
    /\ zCalls[1].ID # zCalls[2].ID
    /\ Len(zResp.choices) = 1
    /\ Len(zResp.choices[1].message.tool_calls) = 2
    /\ Len(zEvents) = 8
    /\ zEvents[4].item.type = "message"
    /\ zEvents[5].type = "response.output_text.delta"
    /\ Len(EmbeddedOutput(7)) = 5

\* The positions of the item-done events and of the item-added events.
SimDone  == {k \in DOMAIN zEvents : zEvents[k].type = "response.output_item.done"}
SimAdded == {k \in DOMAIN zEvents : zEvents[k].type = "response.output_item.added"}

\* C31: in the synthesized stream every item announced by an item-added event
\* gets an item-done event before response.completed, the tool calls' done
\* events before the message's.
C31_EveryAddedItemDone ==
    (zPc = "done" /\ zFlusher) =>
        /\ \A a \in SimAdded :
              \E d \in SimDone :
                  /\ a < d
                  /\ zEvents[d].item.type = zEvents[a].item.type
                  /\ zEvents[d].item.id = zEvents[a].item.id
                  /\ \A c \in Completed : d < c
        /\ \A d, e \in SimDone :
              (zEvents[d].item.type = "function_call" /\ zEvents[e].item.type = "message")
                  => d < e

(***************************************************************************)
(* Properties of the conversation store (checked under SpecStore).         *)
(***************************************************************************)
\* The Store and Delete calls made on id among the first n calls.
OpsOn(id, n) == SelectSeq(SubSeq(kvOps, 1, n), LAMBDA o : o.id = id)

\* Two message lists with the same JSON text.
SameMessages(a, b) == MarshalMessages(a) = MarshalMessages(b)

\* C33: Get(id) returns the messages of the most recent Store(id, messages),
\* in their order, when no Delete(id) followed it, and not-found when the id
\* was never stored or was deleted since; calls on other ids change nothing.
C33_StoreGetDelete ==
    kvGot # NoGot =>
        LET ops == OpsOn(kvGot.id, kvGot.at)
        IN  IF ops # <<>> /\ ops[Len(ops)].op = "Store"
            THEN kvGot.found /\ SameMessages(kvGot.messages, ops[Len(ops)].messages)
            ELSE ~kvGot.found

(***************************************************************************)
(* Properties of the handler's multi-turn history (checked under SpecHist).*)
(***************************************************************************)
\* The assistant message of a finished turn, as a list: built from the text
\* and the tool calls of the stream, or the first choice's message; a Back
\* response without choices has none.
TurnAssistant(t) ==
    IF t.stream
    THEN LET r == t.outcome.stream
         IN  <<[role |-> "assistant", content |-> StringContent(r.OutputText),
                tool_calls |-> [i \in DOMAIN r.ToolCalls |->
                                   [id |-> r.ToolCalls[i].CallID,
                                    name |-> r.ToolCalls[i].Name,
                                    arguments |-> r.ToolCalls[i].Arguments]],
                tool_call_id |-> ""]>>
    ELSE IF Len(t.outcome.body.choices) > 0
         THEN <<t.outcome.body.choices[1].message>>
         ELSE <<>>

\* The conversation a successful turn leaves behind.
TurnConversation(t) == t.Messages \o TurnAssistant(t)

\* The history a request naming prev gets when turns are the turns before it.
HistoryOf(prev, turns) ==
    IF \E i \in DOMAIN turns : turns[i].ok /\ turns[i].id = prev
    THEN TurnConversation(turns[CHOOSE i \in DOMAIN turns :
                                    turns[i].ok /\ turns[i].id = prev])
    ELSE <<>>

C34_DoneOnlyAfterAdded ==
    \A d \in DOMAIN events :
        events[d].type = "response.output_item.done" =>
            \E a \in 1..(d - 1) :
                /\ events[a].type = "response.output_item.added"
                /\ events[a].item.type = events[d].item.type
                /\ events[a].item.id = events[d].item.id
                /\ events[a].item.call_id = events[d].item.call_id

(***************************************************************************)
(* The orchestrator's requests and message list (checked under SpecOrch).  *)
(***************************************************************************)
IsPrefix(a, b) == Len(a) <= Len(b) /\ SubSeq(b, 1, Len(a)) = a

\* C35: every upstream request of HandleWithWebSearch is non-streaming and
\* carries the caller's model, tools, temperature and max_tokens; its message
\* list extends the previous request's; the caller's request stays as it was.
C35_UpstreamRequests ==
    /\ \A i \in DOMAIN upstream :
          LET req == upstream[i].req
          IN  /\ req.stream = FALSE
              /\ req.model = ChatReq.model
              /\ req.tools = ChatReq.tools
              /\ req.temperature = ChatReq.temperature
              /\ req.max_tokens = ChatReq.max_tokens
              /\ i > 1 => IsPrefix(upstream[i - 1].req.messages, req.messages)
    /\ oChatReq = ChatReq

\* Two search rounds were made and the turn returned.
C35_Witness ==
    /\ oPc = "returned"
    /\ Len(upstream) = 3
    /\ Len(upstream[3].req.messages) > Len(upstream[2].req.messages)
    /\ Len(upstream[2].req.messages) > Len(upstream[1].req.messages)

\* The positions the handler appended to a request's message list.
AppendedTo(ms) == (Len(ChatReqMessages) + 1)..Len(ms)

\* The tool messages that answer the assistant message at position a: those
\* between it and the next assistant message.
AnswersTo(ms, a) ==
    {k \in (a + 1)..Len(ms) :
        /\ ms[k].role = "tool"
        /\ \A b \in (a + 1)..k : ms[b].role = "tool"}

\* C36: in the list sent upstream every appended tool message follows an
\* appended assistant message that carries a tool call with its id, and every
\* tool call of an appended assistant message, web_search or not, has exactly
\* one tool message with its id.
C36_ToolCallsAnswered ==
    \A i \in DOMAIN upstream :
        LET ms == upstream[i].req.messages
        IN  /\ \A k \in AppendedTo(ms) :
                  ms[k].role = "tool" =>
                      \E a \in AppendedTo(ms) :
                          /\ ms[a].role = "assistant"
                          /\ k \in AnswersTo(ms, a)
                          /\ \E t \in DOMAIN ms[a].tool_calls :
                                ms[a].tool_calls[t].id = ms[k].tool_call_id
            /\ \A a \in AppendedTo(ms) :
                  ms[a].role = "assistant" =>
                      \A t \in DOMAIN ms[a].tool_calls :
                          Cardinality({k \in AnswersTo(ms, a) :
                                          ms[k].tool_call_id = ms[a].tool_calls[t].id}) = 1

\* The tool messages the handler appended, in order.
AppendedToolMessages == SelectSeq(SubSeq(messages, Len(ChatReqMessages) + 1, Len(messages)),
                                  LAMBDA m : m.role = "tool")

\* C37: the outcome list has one entry per search executed, in order, each
\* with the id of the intercepted tool call and the status completed or
\* failed; at every return its length is the number of tool messages appended.
C37_OutcomePerSearch ==
    /\ Len(webSearchCalls) = Len(searches)
    /\ Len(webSearchCalls) = Len(AppendedToolMessages)
    /\ \A k \in DOMAIN webSearchCalls :
          /\ webSearchCalls[k].ID = AppendedToolMessages[k].tool_call_id
          /\ webSearchCalls[k].Query = searches[k].query
          /\ webSearchCalls[k].Status = IF searches[k].found THEN "completed" ELSE "failed"

\* The turn returned an error after searches that succeeded and failed.
C37_Witness ==
    /\ oPc = "returned" /\ oErr
    /\ \E j, k \in DOMAIN webSearchCalls :
          webSearchCalls[j].Status = "completed" /\ webSearchCalls[k].Status = "failed"

(***************************************************************************)
(* Concurrent Search calls on one session-RPC client.                      *)
(***************************************************************************)
\* C38 (checked under SpecMcpTokens, where every handshake issues a token):
\* every tools/call of every concurrent Search goes out with a non-empty
\* session token, whatever another caller's clearSession does meanwhile.
C38_InvokeCarriesToken ==
    \A p \in Callers :
        pc[p] = "exchange" => (attach[p] # NoHeader /\ attach[p] # 0)

\* The callers whose initialize request is in flight.
Initializing == {p \in Callers : pc[p] = "handshake"}

\* C39: initialize is sent only while the cached token is empty and at most
\* one initialize is in flight per client: callers that find no token take
\* the mutex one after the other, and a caller that finds a token under the
\* mutex uses it and sends no initialize.
C39_InitializeSerialized ==
    /\ Cardinality(Initializing) <= 1
    /\ \A p \in Callers :
          /\ pc[p] = "handshake" => (sessionID = 0 /\ sessionMutex = p)
          /\ pc[p] = "ensure_check" => sessionMutex = p

\* Every caller has passed ensureSession and one handshake was made: the
\* other callers reused its token.
C39_Witness ==
    /\ tokens = 1
    /\ sessionID = 1
    /\ \A p \in Callers : pc[p] \in {"send", "attach", "exchange"} /\ attempt[p] = 0

\* Whether the k-th tools/call answer ends the observed Search at once.
Final(ans) == Decide(ans) # "retry"

\* What C40 says of every state.
BoundedRetry ==
    /\ Len(calls) <= 2
    /\ inits <= 2
    /\ \A k \in DOMAIN calls :
          (calls[k].transport \/ (calls[k].hasError /\ Final(calls[k]))) =>
              /\ k = Len(calls)
              /\ pc[Observed] = "done"
              /\ outcome = (IF calls[k].transport THEN "err_call" ELSE "err_tool")
    /\ (Len(calls) = 2 /\ ~Final(calls[2]) /\ pc[Observed] = "done")
          => outcome = "err_retry"

\* A step in which a Search returns on a tools/call answer leaves the cached
\* token as it was.
ReturnKeepsToken ==
    \A p \in Callers :
        (pc[p] = "exchange" /\ pc'[p] = "done") => sessionID' = sessionID

\* C40: one Search issues at most two tools/call and at most two initialize
\* requests; an answer that is a transport failure or an error envelope that
\* is no auth failure ends the Search at once, the cached token as it was;
\* a second auth failure is returned as an error.
C40_BoundedRetry == []BoundedRetry /\ [][ReturnKeepsToken]_vars

\* The observed Search made two tools/call requests and two handshakes and
\* returned on a second auth failure; another returned on a transport failure.
C40_Witness ==
    /\ Len(calls) = 2 /\ inits = 2
    /\ outcome = "err_retry"
    /\ \E p \in Callers \ {Observed} : pc[p] = "done" /\ attempt[p] = 0

====
